---- MODULE Spec2Model ----
(***************************************************************************)
(* A model of the Orama sorter component (components/sorter.ts), the index *)
(* aggregate with its BM25 bookkeeping (components/index.ts) and the index *)
(* schema walk (create), each under a specification of its own.           *)
(*                                                                         *)
(* Positions in the code are 0-based and kept 0-based here: docs maps an   *)
(* id to i when the id's entry is orderedDocs[i + 1] of the TLA+ sequence. *)
(***************************************************************************)
EXTENDS Integers, Sequences, FiniteSets, TLC

VARIABLES
  sortArgs,     \* the schema and the sort configuration the sorter was created with
  schema,       \* the sortable paths of the schema the sorter was created with, and their types
  sortableProperties, \* Sorter.sortableProperties
  sortablePropertiesWithTypes, \* Sorter.sortablePropertiesWithTypes
  enabled,      \* Sorter.enabled (undefined, hence falsy, on a disabled sorter)
  isSorted,     \* Sorter.isSorted
  language,     \* Sorter.language
  sorts,        \* Sorter.sorts: prop -> PropertySort
  stored,       \* the caller's view: prop -> (id -> value inserted and not removed)
  everInserted, \* history: prop -> ids that insert was ever called with
  reinserted,   \* history: some id was inserted a second time on a property
  nInserts,     \* history: number of sorter insert calls so far
  lastCall,     \* the last sorter call, its arguments and what it returned
  index,        \* the Index of components/index.ts
  allowDuplicates, \* the tokenizer's allowDuplicates option
  docsStore,    \* the documents store of the caller: id -> (prop -> value)
  nIndexCalls,  \* history: number of documents inserted into or removed from the index
  indexCall,    \* the last insert or remove of a document, and the index before it
  scenario,     \* remove and insert again: its phase, the snapshot, the documents removed
  createSchema, \* the schema that index create is called with
  created,      \* what index create did: not called yet, or its index and error
  whereCall     \* the searchByWhereClause call: its filters and what it returned or threw

sorterVars == <<sortArgs, schema, sortableProperties, sortablePropertiesWithTypes,
                enabled, isSorted, language, sorts, stored, everInserted,
                reinserted, nInserts, lastCall>>

\* What create fixes for the life of a sorter.
createdVars == <<sortArgs, schema>>

indexVars == <<index, allowDuplicates, docsStore, nIndexCalls, indexCall>>

scenarioVars == <<scenario>>

createVars == <<createSchema, created>>

whereVars == <<whereCall>>

vars == <<sorterVars, indexVars, scenarioVars, createVars, whereVars>>

----------------------------------------------------------------------------
(* Bounds *)

\* The number of insert calls on a sorter of one property, and on one of several.
MaxInserts == 3

MaxInsertsMulti == 2

\* The number of documents inserted into or removed from the index.
MaxIndexCalls == 3

\* The number of elements of an array value.
MaxElements == 2

\* The number of documents inserted into or removed from the index that
\* searchByWhereClause is called on.
MaxWhereCalls == 2

\* The nesting depth of a schema given to index create.
MaxDepth == 2

Ids == {1, 2, 3}

InsertBudget(sch) ==
  IF Cardinality(DOMAIN sch) > 1 \/ Len(sortArgs.schema) > 1 \/ ~enabled
    THEN MaxInsertsMulti
  ELSE MaxInserts

SortValues(type) ==
  CASE type = "number" -> {10, 20}
    [] type = "boolean" -> {TRUE, FALSE}
    [] type = "string" -> {"a", "b"}

Orders == {"ASC", "DESC"}

\* The properties sortBy is called with.
SortByProperties == {"price", "inStock", "title", "tags"}

Undefined == "undefined"

----------------------------------------------------------------------------
(* Helpers for Map and Array *)

Range(s) == {s[i] : i \in DOMAIN s}

MapSet(m, k, v) == [x \in DOMAIN m \cup {k} |-> IF x = k THEN v ELSE m[x]]

MapDelete(m, k) == [x \in DOMAIN m \ {k} |-> m[x]]

EmptyMap == [x \in {} |-> 0]

InsertAt(s, pos, x) == SubSeq(s, 1, pos) \o <<x>> \o SubSeq(s, pos + 1, Len(s))

RECURSIVE Filter(_, _)
Filter(s, keep) ==
  IF s = <<>> THEN <<>>
  ELSE (IF Head(s) \in keep THEN <<Head(s)>> ELSE <<>>) \o Filter(Tail(s), keep)

\* Array.prototype.sort(comparefn) on a short array: binary insertion, the
\* pivot goes left of mid when comparefn(pivot, mid) < 0 and right otherwise.
\* For a consistent comparefn this is the stable sort the language requires.
RECURSIVE BinarySearch(_, _, _, _, _)
BinarySearch(sorted, pivot, cmp, left, right) ==
  IF left >= right THEN left
  ELSE LET mid == left + ((right - left) \div 2)
       IN IF cmp[pivot, sorted[mid + 1]] < 0
            THEN BinarySearch(sorted, pivot, cmp, left, mid)
            ELSE BinarySearch(sorted, pivot, cmp, mid + 1, right)

RECURSIVE SortInto(_, _, _)
SortInto(sorted, rest, cmp) ==
  IF rest = <<>> THEN sorted
  ELSE SortInto(InsertAt(sorted, BinarySearch(sorted, Head(rest), cmp, 0, Len(sorted)),
                         Head(rest)),
                Tail(rest), cmp)

ArraySort(s, cmp) == SortInto(<<>>, s, cmp)

\* The sequences over S without repetition, of every length.
RECURSIVE Perms(_)
Perms(S) ==
  IF S = {} THEN {<<>>}
  ELSE UNION {{<<x>> \o p : p \in Perms(S \ {x})} : x \in S}

DocIdLists == UNION {Perms(S) : S \in SUBSET Ids}

----------------------------------------------------------------------------
(* Sorter: components/sorter.ts *)

PropertySort(type) ==
  [docs |-> EmptyMap, orderedDocsToRemove |-> {}, orderedDocs |-> <<>>, type |-> type]

\* What save returns for a sorter that is not enabled: { enabled: false }.
DisabledRaw ==
  [enabled |-> FALSE, isSorted |-> FALSE, language |-> Undefined,
   sortableProperties |-> <<>>, sortablePropertiesWithTypes |-> EmptyMap,
   sorts |-> EmptyMap]

NoCall ==
  [op |-> "none", prop |-> "", id |-> 0, index |-> -1, flushed |-> FALSE,
   wasSorted |-> FALSE, err |-> "", raw |-> DisabledRaw]

stringSort(lang, value, d) ==
  IF value[2] = d[2] THEN 0 ELSE IF value[2] = "a" THEN -1 ELSE 1

\* numerSort with its operands swapped.
numerSortSwapped(value, d) == d[2] - value[2]

numerSort(value, d) == value[2] - d[2]

booleanSort(value, d) == IF d[2] THEN -1 ELSE 1

predicate(type, lang, value, d) ==
  CASE type = "string" -> stringSort(lang, value, d)
    [] type = "number" -> numerSort(value, d)
    [] type = "boolean" -> booleanSort(value, d)

\* The last 0-based index at which id occurs in orderedDocs.
LastIndexOf(orderedDocs, id) ==
  (CHOOSE i \in DOMAIN orderedDocs :
     /\ orderedDocs[i][1] = id
     /\ \A j \in DOMAIN orderedDocs : orderedDocs[j][1] = id => j <= i) - 1

ensurePropertyIsSorted(s, lang) ==
  LET cmp == [value \in Range(s.orderedDocs), d \in Range(s.orderedDocs) |->
                predicate(s.type, lang, value, d)]
      ordered == ArraySort(s.orderedDocs, cmp)
      ids == {e[1] : e \in Range(ordered)}
  IN [s EXCEPT !.orderedDocs = ordered,
               !.docs = [id \in DOMAIN s.docs \cup ids |->
                           IF id \in ids THEN LastIndexOf(ordered, id) ELSE s.docs[id]]]

ensureIsSortedSorts(srts, sorted, en, lang) ==
  IF sorted \/ ~en THEN srts
  ELSE [p \in DOMAIN srts |-> ensurePropertyIsSorted(srts[p], lang)]

ensureIsSortedFlag(sorted, en) == IF sorted \/ ~en THEN sorted ELSE TRUE

ensureOrderedDocsAreDeletedByProperty(s) ==
  IF s.orderedDocsToRemove = {} THEN s
  ELSE [s EXCEPT
          !.orderedDocs = Filter(s.orderedDocs,
                                 {e \in Range(s.orderedDocs) :
                                    e[1] \notin s.orderedDocsToRemove}),
          !.orderedDocsToRemove = {}]

\* sortByCompare without the test that puts an un-indexed a after an indexed b.
sortByCompareUnindexedFirst(docs, isDesc, a, b) ==
  LET isAIndexed == a \in DOMAIN docs
      isBIndexed == b \in DOMAIN docs
  IN IF ~isAIndexed /\ ~isBIndexed THEN 0
     ELSE IF ~isAIndexed THEN -1
     ELSE IF ~isBIndexed THEN -1
     ELSE IF isDesc THEN docs[b] - docs[a] ELSE docs[a] - docs[b]

\* The comparator of docIds.sort in sortBy.
sortByCompare(docs, isDesc, a, b) ==
  LET isAIndexed == a \in DOMAIN docs
      isBIndexed == b \in DOMAIN docs
  IN IF ~isAIndexed /\ ~isBIndexed THEN 0
     ELSE IF ~isAIndexed THEN 1
     ELSE IF ~isBIndexed THEN -1
     ELSE IF isDesc THEN docs[b] - docs[a] ELSE docs[a] - docs[b]

\* insertLanguage without the return of a sorter that is not enabled.
insertLanguageOfAny(en, language0, lang) == lang

\* sorter.language after insert.
insertLanguage(en, language0, lang) == IF ~en THEN language0 ELSE lang

insert(prop, id, value, lang) ==
  /\ nInserts < InsertBudget(schema)
  /\ id \notin DOMAIN stored[prop]
  /\ nInserts' = nInserts + 1
  /\ stored' = [stored EXCEPT ![prop] = MapSet(@, id, value)]
  /\ everInserted' = [everInserted EXCEPT ![prop] = @ \cup {id}]
  /\ reinserted' = (reinserted \/ id \in everInserted[prop])
  /\ lastCall' = [NoCall EXCEPT !.op = "insert", !.prop = prop, !.id = id]
  /\ UNCHANGED <<createdVars, sortableProperties, sortablePropertiesWithTypes>>
  /\ language' = insertLanguage(enabled, language, lang)
  /\ IF ~enabled
       THEN UNCHANGED <<enabled, isSorted, sorts>>
       ELSE /\ isSorted' = FALSE
            /\ sorts' = [sorts EXCEPT
                 ![prop].docs = MapSet(@, id, Len(sorts[prop].orderedDocs)),
                 ![prop].orderedDocs = Append(@, <<id, value>>)]
            /\ UNCHANGED enabled

\* NotIndex that never holds.
NotIndexNever(docs, id) == FALSE

\* !index of remove: the lookup gave undefined, or it gave position 0.
NotIndex(docs, id) == id \notin DOMAIN docs \/ docs[id] = 0

remove(prop, id) ==
  /\ stored' = [stored EXCEPT ![prop] = MapDelete(@, id)]
  /\ UNCHANGED <<createdVars, sortableProperties, sortablePropertiesWithTypes,
                 everInserted, reinserted, nInserts, enabled, isSorted, language>>
  /\ IF ~enabled
       THEN /\ lastCall' = [NoCall EXCEPT !.op = "remove", !.prop = prop, !.id = id]
            /\ UNCHANGED sorts
       ELSE LET s == sorts[prop]
            IN /\ lastCall' = [NoCall EXCEPT !.op = "remove", !.prop = prop, !.id = id,
                                 !.index = IF id \in DOMAIN s.docs THEN s.docs[id] ELSE -1]
               /\ IF NotIndex(s.docs, id)
                    THEN UNCHANGED sorts
                    ELSE sorts' = [sorts EXCEPT
                           ![prop].docs = MapDelete(@, id),
                           ![prop].orderedDocsToRemove = @ \cup {id}]

\* The state part of sortBy: the pending removals of the property are
\* flushed, then every property is sorted if the sorter is dirty.
sortBySorts(srts, sorted, en, lang, property) ==
  ensureIsSortedSorts(
    [srts EXCEPT ![property] = ensureOrderedDocsAreDeletedByProperty(@)],
    sorted, en, lang)

\* The value sortBy returns: docIds sorted by the positions in docs.
sortByResult(docs, docIds, order) ==
  LET isDesc == order = "DESC"
      cmp == [a \in Range(docIds), b \in Range(docIds) |->
                sortByCompare(docs, isDesc, a, b)]
  IN ArraySort(docIds, cmp)

\* sortByError without the test of sorter.enabled.
sortByErrorOfUnknownField(en, srts, property) ==
  IF property \notin DOMAIN srts THEN "UNABLE_TO_SORT_ON_UNKNOWN_FIELD" ELSE "none"

\* sortByError without the test that the property has a sort.
sortByErrorOfDisabled(en, srts, property) ==
  IF ~en THEN "SORT_DISABLED" ELSE "none"

\* What sortBy throws, "none" when it returns.
sortByError(en, srts, property) ==
  IF ~en THEN "SORT_DISABLED"
  ELSE IF property \notin DOMAIN srts THEN "UNABLE_TO_SORT_ON_UNKNOWN_FIELD"
  ELSE "none"

\* The array docIds after sortBy, which sorts it in place unless it throws.
sortByDocIds(en, srts, sorted, lang, property, docIds, order) ==
  IF sortByError(en, srts, property) # "none" THEN docIds
  ELSE sortByResult(sortBySorts(srts, sorted, en, lang, property)[property].docs,
                    docIds, order)

sortBy(property) ==
  /\ UNCHANGED <<createdVars, sortableProperties, sortablePropertiesWithTypes,
                 stored, everInserted, reinserted, nInserts, enabled, language>>
  /\ IF sortByError(enabled, sorts, property) # "none"
       THEN /\ lastCall' = [NoCall EXCEPT !.op = "sortBy", !.prop = property,
                              !.err = sortByError(enabled, sorts, property)]
            /\ UNCHANGED <<isSorted, sorts>>
       ELSE /\ sorts' = sortBySorts(sorts, isSorted, enabled, language, property)
            /\ isSorted' = ensureIsSortedFlag(isSorted, enabled)
            /\ lastCall' = [NoCall EXCEPT !.op = "sortBy", !.prop = property,
                              !.flushed = (sorts[property].orderedDocsToRemove # {}),
                              !.wasSorted = isSorted,
                              !.err = "none"]

\* Object.fromEntries(docs.entries()): the ids become the keys of an object,
\* which are strings; load makes them numbers again (+id).
DocIdOf(key) == CHOOSE id \in Ids : ToString(id) = key

ObjectFromEntries(docs) ==
  [key \in {ToString(id) : id \in DOMAIN docs} |-> docs[DocIdOf(key)]]

MapOfEntries(docs) ==
  [id \in {DocIdOf(key) : key \in DOMAIN docs} |-> docs[ToString(id)]]

saveSort(s) ==
  [docs |-> ObjectFromEntries(s.docs), orderedDocs |-> s.orderedDocs, type |-> s.type]

\* loadSort with an empty docs map.
loadSortWithoutDocs(raw) ==
  [docs |-> EmptyMap, orderedDocsToRemove |-> {}, orderedDocs |-> raw.orderedDocs,
   type |-> raw.type]

loadSort(raw) ==
  [docs |-> MapOfEntries(raw.docs), orderedDocsToRemove |-> {},
   orderedDocs |-> raw.orderedDocs, type |-> raw.type]

ensureOrderedDocsAreDeleted(srts) ==
  [prop \in DOMAIN srts |-> ensureOrderedDocsAreDeletedByProperty(srts[prop])]

\* The sorts of the sorter once save has flushed it.
saveSorts(srts, sorted, en, lang) ==
  ensureIsSortedSorts(ensureOrderedDocsAreDeleted(srts), sorted, en, lang)

\* The value save returns.
saveRaw(en, srts, sorted, lang, props, propsWithTypes) ==
  IF ~en THEN DisabledRaw
  ELSE [enabled |-> en, isSorted |-> ensureIsSortedFlag(sorted, en), language |-> lang,
        sortableProperties |-> props, sortablePropertiesWithTypes |-> propsWithTypes,
        sorts |-> [prop \in DOMAIN srts |->
                     saveSort(saveSorts(srts, sorted, en, lang)[prop])]]

save ==
  /\ lastCall' = [NoCall EXCEPT !.op = "save",
                    !.raw = saveRaw(enabled, sorts, isSorted, language,
                                    sortableProperties, sortablePropertiesWithTypes)]
  /\ UNCHANGED <<createdVars, sortableProperties, sortablePropertiesWithTypes,
                 stored, everInserted, reinserted, nInserts, enabled, language>>
  /\ IF ~enabled THEN UNCHANGED <<isSorted, sorts>>
     ELSE /\ sorts' = saveSorts(sorts, isSorted, enabled, language)
          /\ isSorted' = ensureIsSortedFlag(isSorted, enabled)

\* The sorter load makes of a saved value: { enabled: false } of one that is
\* not enabled.
load(raw) ==
  IF ~raw.enabled
    THEN [enabled |-> FALSE, isSorted |-> FALSE, language |-> Undefined,
          sortableProperties |-> <<>>, sortablePropertiesWithTypes |-> EmptyMap,
          sorts |-> EmptyMap]
  ELSE [enabled |-> TRUE, isSorted |-> raw.isSorted, language |-> raw.language,
        sortableProperties |-> raw.sortableProperties,
        sortablePropertiesWithTypes |-> raw.sortablePropertiesWithTypes,
        sorts |-> [prop \in DOMAIN raw.sorts |-> loadSort(raw.sorts[prop])]]

\* The sorter is replaced by the one loaded from the value just saved.
loadSaved ==
  LET sorter == load(lastCall.raw)
  IN /\ lastCall.op = "save"
     /\ enabled' = sorter.enabled
     /\ isSorted' = sorter.isSorted
     /\ language' = sorter.language
     /\ sortableProperties' = sorter.sortableProperties
     /\ sortablePropertiesWithTypes' = sorter.sortablePropertiesWithTypes
     /\ sorts' = sorter.sorts
     /\ lastCall' = [NoCall EXCEPT !.op = "load"]
     /\ UNCHANGED <<createdVars, stored, everInserted, reinserted, nInserts>>

----------------------------------------------------------------------------
(* JavaScript values *)

\* The value of an object key: <<v>> when it holds v, <<>> when it holds
\* undefined (the key is there, as `key in object` and Object.keys see it).
Some(v) == <<v>>

UndefinedSlot == <<>>

\* A Number is the exact fraction <<n, d>> in lowest terms with d > 0, or one
\* of NaN, Infinity and -Infinity (d = 0). Rounding is not modelled.
NaN == <<0, 0>>

Infinity == <<1, 0>>

NegInfinity == <<-1, 0>>

IsFinite(x) == x[2] # 0

Abs(n) == IF n < 0 THEN -n ELSE n

RECURSIVE GCD(_, _)
GCD(a, b) == IF b = 0 THEN a ELSE GCD(b, a % b)

Fraction(n, d) == LET g == GCD(Abs(n), d) IN <<n \div g, d \div g>>

Whole(n) == <<n, 1>>

\* x * k for an integer k >= 0
Times(x, k) ==
  IF IsFinite(x) THEN Fraction(x[1] * k, x[2])
  ELSE IF x = NaN \/ k = 0 THEN NaN ELSE x

\* x + m for an integer m
Plus(x, m) == IF IsFinite(x) THEN Fraction(x[1] + m * x[2], x[2]) ELSE x

\* x - v for the value of a key that holds an integer or undefined
MinusSlot(x, slot) == IF slot = UndefinedSlot THEN NaN ELSE Plus(x, -slot[1])

\* x / k for an integer k >= 0
Over(x, k) ==
  IF ~IsFinite(x) THEN x
  ELSE IF k = 0
    THEN (IF x[1] = 0 THEN NaN ELSE IF x[1] > 0 THEN Infinity ELSE NegInfinity)
    ELSE Fraction(x[1], x[2] * k)

----------------------------------------------------------------------------
(* Tokenizer, radix tree and AVL tree, as the index uses them *)

RECURSIVE Dedup(_)
Dedup(s) ==
  IF s = <<>> THEN <<>>
  ELSE LET init == Dedup(SubSeq(s, 1, Len(s) - 1))
           x == s[Len(s)]
       IN IF x \in Range(init) THEN init ELSE Append(init, x)

\* tokenize: a text is given as the sequence of its words, which are kept in
\* order and deduplicated unless the tokenizer allows duplicates.
Tokenize(text, allowDup) == IF allowDup THEN text ELSE Dedup(text)

\* The radix tree as the map term -> (id -> occurrences).
radixCreate == EmptyMap

radixInsert(node, term, id) ==
  LET ids == IF term \in DOMAIN node THEN node[term] ELSE EmptyMap
  IN MapSet(node, term, MapSet(ids, id, IF id \in DOMAIN ids THEN ids[id] + 1 ELSE 1))

radixRemoveDocument(node, term, id) ==
  IF term \notin DOMAIN node THEN node
  ELSE LET ids == MapDelete(node[term], id)
       IN IF DOMAIN ids = {} THEN MapDelete(node, term) ELSE MapSet(node, term, ids)

\* The AVL tree as the map key -> ids; avlCreate(0, []) makes the node of key 0.
avlCreate == MapSet(EmptyMap, 0, <<>>)

avlInsert(node, key, ids) ==
  MapSet(node, key, (IF key \in DOMAIN node THEN node[key] ELSE <<>>) \o ids)

avlRemoveDocument(node, id, key) ==
  IF key \notin DOMAIN node THEN node
  ELSE LET ids == Filter(node[key], Range(node[key]) \ {id})
       IN IF ids = <<>> THEN MapDelete(node, key) ELSE MapSet(node, key, ids)

----------------------------------------------------------------------------
(* Index: components/index.ts *)

ScalarTypes == {"string", "number", "boolean"}

ArrayTypes == {"string[]", "number[]", "boolean[]"}

isArrayType(type) == type \in ArrayTypes

getInnerType(type) ==
  CASE type = "string[]" -> "string"
    [] type = "number[]" -> "number"
    [] type = "boolean[]" -> "boolean"

\* A schema is the sequence of its entries [prop, type]; a type is a string
\* (kind "string", its text in name), a nested schema (kind "object") or any
\* other value, such as an array (kind "array").
TypeName(name) == [kind |-> "string", name |-> name, schema |-> <<>>]

Nested(sch) == [kind |-> "object", name |-> "", schema |-> sch]

ArrayValue == [kind |-> "array", name |-> "", schema |-> <<>>]

Entry(prop, type) == [prop |-> prop, type |-> type]

EmptyIndex ==
  [indexes |-> EmptyMap, searchableProperties |-> <<>>,
   searchablePropertiesWithTypes |-> EmptyMap, frequencies |-> EmptyMap,
   tokenOccurrencies |-> EmptyMap, avgFieldLength |-> EmptyMap,
   fieldLengths |-> EmptyMap]

Path(prefix, prop) == prefix \o (IF prefix # "" THEN "." ELSE "") \o prop

\* The structures create makes for one path of a valid type.
createPath(idx, path, type) ==
  LET made ==
        CASE type \in {"boolean", "boolean[]"} ->
               [idx EXCEPT !.indexes = MapSet(@, path, [true |-> <<>>, false |-> <<>>])]
          [] type \in {"number", "number[]"} ->
               [idx EXCEPT !.indexes = MapSet(@, path, avlCreate)]
          [] type \in {"string", "string[]"} ->
               [idx EXCEPT !.indexes = MapSet(@, path, radixCreate),
                           !.avgFieldLength = MapSet(@, path, Whole(0)),
                           !.frequencies = MapSet(@, path, EmptyMap),
                           !.tokenOccurrencies = MapSet(@, path, EmptyMap),
                           !.fieldLengths = MapSet(@, path, EmptyMap)]
  IN [made EXCEPT !.searchableProperties = Append(@, path),
                  !.searchablePropertiesWithTypes = MapSet(@, path, type)]

\* create(orama, schema, index, prefix): the index it has built when it
\* returns or throws, the error it throws ("" when it returns), and whether
\* the promise of some nested call was rejected. A nested call is made
\* without await: what it did to index stays, what it throws is dropped.
RECURSIVE indexCreate(_, _, _)
indexCreate(sch, idx, prefix) ==
  IF sch = <<>> THEN [index |-> idx, error |-> "", dropped |-> FALSE]
  ELSE LET type == Head(sch).type
           path == Path(prefix, Head(sch).prop)
       IN IF type.kind = "object"
            THEN LET nested == indexCreate(type.schema, idx, path)
                     rest == indexCreate(Tail(sch), nested.index, prefix)
                 IN [rest EXCEPT !.dropped = @ \/ nested.dropped \/ nested.error # ""]
          ELSE IF type.kind = "string" /\ type.name \in ScalarTypes \cup ArrayTypes
            THEN indexCreate(Tail(sch), createPath(idx, path, type.name), prefix)
          ELSE [index |-> idx, error |-> "INVALID_SCHEMA_TYPE", dropped |-> FALSE]

insertDocumentScoreParameters(idx, prop, id, tokens, docsCount) ==
  [idx EXCEPT
     !.avgFieldLength[prop] = Over(Plus(Times(@, docsCount - 1), Len(tokens)), docsCount),
     !.fieldLengths[prop] = MapSet(@, id, Some(Len(tokens))),
     !.frequencies[prop] = MapSet(@, id, Some(EmptyMap))]

insertTokenScoreParameters(idx, prop, id, tokens, token) ==
  LET tokenFrequency == Cardinality({i \in DOMAIN tokens : tokens[i] = token})
      tf == Fraction(tokenFrequency, Len(tokens))
      occ == idx.tokenOccurrencies[prop]
  IN [idx EXCEPT
        !.frequencies[prop][id] = Some(MapSet(@[1], token, tf)),
        !.tokenOccurrencies[prop] =
           MapSet(@, token, (IF token \in DOMAIN occ THEN occ[token] ELSE 0) + 1)]

\* removeDocumentScoreParameters dividing by docsCount, not by docsCount - 1
removeDocumentScoreParametersByCount(idx, prop, id, docsCount) ==
  [idx EXCEPT
     !.avgFieldLength[prop] =
        Over(MinusSlot(Times(@, docsCount),
                       IF id \in DOMAIN idx.fieldLengths[prop]
                         THEN idx.fieldLengths[prop][id] ELSE UndefinedSlot),
             docsCount),
     !.fieldLengths[prop] = MapSet(@, id, UndefinedSlot),
     !.frequencies[prop] = MapSet(@, id, UndefinedSlot)]

removeDocumentScoreParameters(idx, prop, id, docsCount) ==
  [idx EXCEPT
     !.avgFieldLength[prop] =
        Over(MinusSlot(Times(@, docsCount),
                       IF id \in DOMAIN idx.fieldLengths[prop]
                         THEN idx.fieldLengths[prop][id] ELSE UndefinedSlot),
             docsCount - 1),
     !.fieldLengths[prop] = MapSet(@, id, UndefinedSlot),
     !.frequencies[prop] = MapSet(@, id, UndefinedSlot)]

\* tokenOccurrencies[prop][token]--, which leaves NaN at a token never counted
removeTokenScoreParameters(idx, prop, token) ==
  LET occ == idx.tokenOccurrencies[prop]
  IN [idx EXCEPT !.tokenOccurrencies[prop] =
        MapSet(@, token, IF token \in DOMAIN occ THEN occ[token] - 1 ELSE NaN)]

RECURSIVE insertTokens(_, _, _, _, _)
insertTokens(idx, prop, id, tokens, rest) ==
  IF rest = <<>> THEN idx
  ELSE LET scored == insertTokenScoreParameters(idx, prop, id, tokens, Head(rest))
       IN insertTokens([scored EXCEPT !.indexes[prop] = radixInsert(@, Head(rest), id)],
                       prop, id, tokens, Tail(rest))

BooleanKey(value) == IF value THEN "true" ELSE "false"

insertScalar(idx, prop, id, value, schemaType, allowDup, docsCount) ==
  CASE schemaType = "boolean" ->
         [idx EXCEPT !.indexes[prop][BooleanKey(value)] = Append(@, id)]
    [] schemaType = "number" ->
         [idx EXCEPT !.indexes[prop] = avlInsert(@, value, <<id>>)]
    [] schemaType = "string" ->
         LET tokens == Tokenize(value, allowDup)
         IN insertTokens(insertDocumentScoreParameters(idx, prop, id, tokens, docsCount),
                         prop, id, tokens, tokens)

RECURSIVE insertElements(_, _, _, _, _, _, _)
insertElements(idx, prop, id, elements, innerSchemaType, allowDup, docsCount) ==
  IF elements = <<>> THEN idx
  ELSE insertElements(
         insertScalar(idx, prop, id, Head(elements), innerSchemaType, allowDup, docsCount),
         prop, id, Tail(elements), innerSchemaType, allowDup, docsCount)

indexInsert(idx, prop, id, value, schemaType, allowDup, docsCount) ==
  IF ~isArrayType(schemaType)
    THEN insertScalar(idx, prop, id, value, schemaType, allowDup, docsCount)
    ELSE insertElements(idx, prop, id, value, getInnerType(schemaType), allowDup, docsCount)

\* Array.prototype.indexOf, 0-based, -1 when the array does not hold x
IndexOf(s, x) ==
  IF x \notin Range(s) THEN -1
  ELSE (CHOOSE i \in DOMAIN s : s[i] = x /\ \A j \in DOMAIN s : s[j] = x => i <= j) - 1

\* Array.prototype.splice(position, 1): a negative position counts from the end
Splice1(s, position) ==
  LET start == IF position < 0
                 THEN (IF Len(s) + position < 0 THEN 0 ELSE Len(s) + position)
                 ELSE (IF position > Len(s) THEN Len(s) ELSE position)
  IN SubSeq(s, 1, start) \o SubSeq(s, start + 2, Len(s))

RECURSIVE removeTokens(_, _, _, _)
removeTokens(idx, prop, id, rest) ==
  IF rest = <<>> THEN idx
  ELSE LET scored == removeTokenScoreParameters(idx, prop, Head(rest))
       IN removeTokens([scored EXCEPT !.indexes[prop] = radixRemoveDocument(@, Head(rest), id)],
                       prop, id, Tail(rest))

removeScalar(idx, prop, id, value, schemaType, allowDup, docsCount) ==
  CASE schemaType = "number" ->
         [idx EXCEPT !.indexes[prop] = avlRemoveDocument(@, id, value)]
    [] schemaType = "boolean" ->
         LET booleanKey == BooleanKey(value)
             position == IndexOf(idx.indexes[prop][booleanKey], id)
         IN [idx EXCEPT !.indexes[prop][booleanKey] = Splice1(@, position)]
    [] schemaType = "string" ->
         LET tokens == Tokenize(value, allowDup)
         IN removeTokens(removeDocumentScoreParameters(idx, prop, id, docsCount),
                         prop, id, tokens)

RECURSIVE removeElements(_, _, _, _, _, _, _)
removeElements(idx, prop, id, elements, innerSchemaType, allowDup, docsCount) ==
  IF elements = <<>> THEN idx
  ELSE removeElements(
         removeScalar(idx, prop, id, Head(elements), innerSchemaType, allowDup, docsCount),
         prop, id, Tail(elements), innerSchemaType, allowDup, docsCount)

indexRemove(idx, prop, id, value, schemaType, allowDup, docsCount) ==
  IF ~isArrayType(schemaType)
    THEN removeScalar(idx, prop, id, value, schemaType, allowDup, docsCount)
    ELSE removeElements(idx, prop, id, value, getInnerType(schemaType), allowDup, docsCount)

----------------------------------------------------------------------------
(* The caller of the index: a document is stored, counted, and each of its
   values is handed to the index; on removal the count is taken first. *)

RECURSIVE insertDocument(_, _, _, _, _, _)
insertDocument(idx, props, id, doc, allowDup, docsCount) ==
  IF props = <<>> THEN idx
  ELSE LET prop == Head(props)
           next == IF prop \in DOMAIN doc
                     THEN indexInsert(idx, prop, id, doc[prop],
                                      idx.searchablePropertiesWithTypes[prop],
                                      allowDup, docsCount)
                     ELSE idx
       IN insertDocument(next, Tail(props), id, doc, allowDup, docsCount)

RECURSIVE removeDocument(_, _, _, _, _, _)
removeDocument(idx, props, id, doc, allowDup, docsCount) ==
  IF props = <<>> THEN idx
  ELSE LET prop == Head(props)
           next == IF prop \in DOMAIN doc
                     THEN indexRemove(idx, prop, id, doc[prop],
                                      idx.searchablePropertiesWithTypes[prop],
                                      allowDup, docsCount)
                     ELSE idx
       IN removeDocument(next, Tail(props), id, doc, allowDup, docsCount)

\* The sequences over S of at most n elements.
RECURSIVE SeqsUpTo(_, _)
SeqsUpTo(S, n) ==
  IF n = 0 THEN {<<>>}
  ELSE LET shorter == SeqsUpTo(S, n - 1)
       IN shorter \cup {Append(s, x) : s \in shorter, x \in S}

\* Texts, as the sequences of their words.
Texts == {<<>>, <<"a">>, <<"a", "b">>, <<"a", "a">>}

IndexValues(type) ==
  CASE type = "string" -> Texts
    [] type = "number" -> {10, 20}
    [] type = "boolean" -> BOOLEAN
    [] type = "string[]" -> SeqsUpTo({<<"a">>, <<"a", "b">>}, MaxElements)
    [] type = "number[]" -> SeqsUpTo({10, 20}, MaxElements)
    [] type = "boolean[]" -> SeqsUpTo(BOOLEAN, MaxElements)

IndexSchemas ==
  {<<Entry("title", TypeName("string"))>>,
   <<Entry("tags", TypeName("string[]"))>>,
   <<Entry("inStock", TypeName("boolean"))>>,
   <<Entry("flags", TypeName("boolean[]"))>>,
   <<Entry("price", TypeName("number"))>>}

\* The documents of an index: a value for some of its searchable properties.
Documents(idx) ==
  UNION {[props -> UNION {IndexValues(idx.searchablePropertiesWithTypes[p]) : p \in props}]
           : props \in SUBSET Range(idx.searchableProperties)}

NoIndexCall(idx) ==
  [op |-> "none", id |-> 0, doc |-> EmptyMap, docsCount |-> 0, undo |-> FALSE,
   base |-> idx]

InsertDocumentCall(id, doc) ==
  LET docsCount == Cardinality(DOMAIN docsStore) + 1
  IN /\ id \notin DOMAIN docsStore
     /\ docsStore' = MapSet(docsStore, id, doc)
     /\ index' = insertDocument(index, index.searchableProperties, id, doc,
                                allowDuplicates, docsCount)
     /\ nIndexCalls' = nIndexCalls + 1
     /\ indexCall' = [op |-> "insert", id |-> id, doc |-> doc, docsCount |-> docsCount,
                       undo |-> FALSE, base |-> index]
     /\ UNCHANGED allowDuplicates

RemoveDocumentCall(id) ==
  LET docsCount == Cardinality(DOMAIN docsStore)
      doc == docsStore[id]
      undo == indexCall.op = "insert" /\ indexCall.id = id
  IN /\ id \in DOMAIN docsStore
     /\ index' = removeDocument(index, index.searchableProperties, id, doc,
                                allowDuplicates, docsCount)
     /\ docsStore' = MapDelete(docsStore, id)
     /\ nIndexCalls' = nIndexCalls + 1
     /\ indexCall' = [op |-> "remove", id |-> id, doc |-> doc, docsCount |-> docsCount,
                       undo |-> undo, base |-> IF undo THEN indexCall.base ELSE index]
     /\ UNCHANGED allowDuplicates

\* remove of the index called with an id and values of the caller's choice,
\* whether or not a document of that id is stored.
RemoveValuesCall(id, doc) ==
  LET docsCount == Cardinality(DOMAIN docsStore)
  IN /\ index' = removeDocument(index, index.searchableProperties, id, doc,
                                allowDuplicates, docsCount)
     /\ nIndexCalls' = nIndexCalls + 1
     /\ indexCall' = [op |-> "removeValues", id |-> id, doc |-> doc,
                       docsCount |-> docsCount, undo |-> FALSE, base |-> index]
     /\ UNCHANGED <<allowDuplicates, docsStore>>

\* The schemas given to index create: one or two properties, each of a valid
\* type, of a type create does not know ("date", an array value), or a nested
\* schema, which is made likewise down to the given depth.
LeafTypes == {TypeName("string"), TypeName("boolean[]"), TypeName("date"), ArrayValue}

NestedLeafTypes == {TypeName("string"), TypeName("date")}

PropNames == <<"a", "b">>

SchemasOver(types) ==
  UNION {{[i \in 1..n |-> Entry(PropNames[i], ts[i])] : ts \in [1..n -> types]}
           : n \in 1..Len(PropNames)}

RECURSIVE NestedSchemasOf(_)
NestedSchemasOf(depth) ==
  SchemasOver(NestedLeafTypes \cup
                (IF depth > 1 THEN {Nested(s) : s \in NestedSchemasOf(depth - 1)} ELSE {}))

CreateSchemasOf(depth) ==
  SchemasOver(LeafTypes \cup
                (IF depth > 1 THEN {Nested(s) : s \in NestedSchemasOf(depth - 1)} ELSE {}))

IsValidType(type) ==
  \/ type.kind = "string" /\ type.name \in ScalarTypes \cup ArrayTypes
  \/ type.kind = "object"

\* The schema holds, at some depth, a property of a type that is neither one
\* of the six searchable types nor a nested schema.
RECURSIVE HasInvalidType(_)
HasInvalidType(sch) ==
  \E i \in DOMAIN sch :
    \/ ~IsValidType(sch[i].type)
    \/ sch[i].type.kind = "object" /\ HasInvalidType(sch[i].type.schema)

NotCreated == [called |-> FALSE, index |-> EmptyIndex, error |-> "", dropped |-> FALSE]

CreateCall ==
  LET r == indexCreate(createSchema, EmptyIndex, "")
  IN /\ ~created.called
     /\ created' = [called |-> TRUE, index |-> r.index, error |-> r.error,
                     dropped |-> r.dropped]
     /\ UNCHANGED createSchema

----------------------------------------------------------------------------
(* Sorter create: components/sorter.ts *)

\* The sort configuration given to create: enabled is "true", "false" or
\* "undefined" (left out).
SortConfig(isEnabled, unsortableProperties) ==
  [enabled |-> isEnabled, unsortableProperties |-> unsortableProperties]

NewSorter ==
  [enabled |-> TRUE, isSorted |-> TRUE, language |-> Undefined,
   sortableProperties |-> <<>>, sortablePropertiesWithTypes |-> EmptyMap,
   sorts |-> EmptyMap, error |-> ""]

\* { disabled: true }: enabled is undefined, which every reader takes as false.
DisabledSorter == [NewSorter EXCEPT !.enabled = FALSE, !.isSorted = FALSE]

\* Object spread { ...a, ...b }
Spread(a, b) == [k \in DOMAIN a \cup DOMAIN b |-> IF k \in DOMAIN b THEN b[k] ELSE a[k]]

\* The loop of innerCreate over the entries of schema, from the sorter built
\* so far; a throw ends it with the error.
\* includes that finds nothing.
includesNothing(array, element) == FALSE

\* Array.prototype.includes.
includes(array, element) == element \in Range(array)

RECURSIVE innerCreateLoop(_, _, _, _)
innerCreateLoop(sch, sortableDeniedProperties, prefix, sorter) ==
  IF sch = <<>> THEN sorter
  ELSE LET type == Head(sch).type
           path == Path(prefix, Head(sch).prop)
           Throw == [sorter EXCEPT !.error = "INVALID_SORT_SCHEMA_TYPE"]
           Continue(next) == innerCreateLoop(Tail(sch), sortableDeniedProperties, prefix, next)
       IN IF includes(sortableDeniedProperties, path) THEN Continue(sorter)
          ELSE IF type.kind = "object"
            THEN LET ret == innerCreateLoop(type.schema, sortableDeniedProperties, path,
                                            NewSorter)
                 IN IF ret.error # "" THEN Throw
                    ELSE Continue(
                      [sorter EXCEPT
                         !.sortableProperties = @ \o ret.sortableProperties,
                         !.sorts = Spread(@, ret.sorts),
                         !.sortablePropertiesWithTypes =
                            Spread(@, ret.sortablePropertiesWithTypes)])
          ELSE IF type.kind = "string" /\ type.name \in ScalarTypes
            THEN Continue(
                   [sorter EXCEPT
                      !.sortableProperties = Append(@, path),
                      !.sortablePropertiesWithTypes = MapSet(@, path, type.name),
                      !.sorts = MapSet(@, path, PropertySort(type.name))])
          ELSE IF type.kind = "string" /\ type.name \in ArrayTypes
            THEN Continue(sorter)
          ELSE Throw

innerCreate(sch, sortableDeniedProperties, prefix) ==
  innerCreateLoop(sch, sortableDeniedProperties, prefix, NewSorter)

sorterCreate(sch, config) ==
  LET isSortEnabled == config.enabled # "false"
  IN IF ~isSortEnabled THEN DisabledSorter
     ELSE innerCreate(sch, config.unsortableProperties, "")

\* The schemas and configurations the sorter under study is created with.
SorterCreateArgs ==
  LET price == Entry("price", TypeName("number"))
      inStock == Entry("inStock", TypeName("boolean"))
      title == Entry("title", TypeName("string"))
      tags == Entry("tags", TypeName("string[]"))
      Args(sch, config) == [schema |-> sch, config |-> config]
  IN {Args(sch, SortConfig(isEnabled, <<>>)) :
        sch \in {<<price>>, <<inStock>>, <<title>>, <<price, inStock>>},
        isEnabled \in {"undefined", "false"}}
     \cup {Args(<<price, tags>>, SortConfig("true", <<>>)),
            Args(<<price, title>>, SortConfig("true", <<"title">>))}

NoArgs == [schema |-> <<>>, config |-> SortConfig("false", <<>>)]

\* The sort configurations create is studied with: none given, some paths
\* made unsortable, and sort disabled.
SorterConfigs ==
  {SortConfig("undefined", unsortableProperties) :
     unsortableProperties \in {<<>>, <<"a">>, <<"b">>, <<"a.b">>, <<"a", "b.a">>}}
  \cup {SortConfig("false", <<>>)}

\* create of the sorter, called once; a throw leaves no sorter.
createSorter ==
  LET sorter == sorterCreate(sortArgs.schema, sortArgs.config)
  IN /\ lastCall.op = "none"
     /\ lastCall' = [NoCall EXCEPT !.op = "create", !.err = sorter.error]
     /\ UNCHANGED <<createdVars, stored, everInserted, reinserted, nInserts>>
     /\ IF sorter.error # ""
          THEN UNCHANGED <<enabled, isSorted, language, sortableProperties,
                           sortablePropertiesWithTypes, sorts>>
          ELSE /\ enabled' = sorter.enabled
               /\ isSorted' = sorter.isSorted
               /\ language' = sorter.language
               /\ sortableProperties' = sorter.sortableProperties
               /\ sortablePropertiesWithTypes' = sorter.sortablePropertiesWithTypes
               /\ sorts' = sorter.sorts

----------------------------------------------------------------------------
(* create: methods/create.ts *)

\* The values given as components, by what create asks of them: undefined,
\* a function, an object that is no function, an array of such items, a
\* tokenizer (it has tokenize) and a tokenizer configuration of a language.
Component(kind, items, lang) == [kind |-> kind, items |-> items, language |-> lang]

NoComponent == Component("undefined", <<>>, Undefined)

NullComponent == Component("null", <<>>, Undefined)

FunctionComponent == Component("function", <<>>, Undefined)

\* The function that create takes for a function component that is not given.
DefaultComponent == Component("defaultFunction", <<>>, Undefined)

\* typeof value === 'function'
IsFunction(value) == value.kind \in {"function", "defaultFunction"}

ObjectComponent == Component("object", <<>>, Undefined)

ArrayComponent(items) == Component("array", items, Undefined)

TokenizerComponent(lang) == Component("tokenizer", <<>>, lang)

TokenizerConfig(lang) == Component("config", <<>>, lang)

\* components[key]
ComponentAt(components, key) ==
  IF key \in DOMAIN components THEN components[key] ELSE NoComponent

Truthy(value) == value.kind \notin {"undefined", "null"}

\* hooks.ts
OBJECT_COMPONENTS == <<"tokenizer", "index", "documentsStore", "sorter">>

FUNCTION_COMPONENTS ==
  <<"getDocumentIndexId", "getDocumentProperties", "validateSchema", "formatElapsedTime">>

SINGLE_OR_ARRAY_COMPONENTS ==
  <<"beforeInsert", "afterInsert", "beforeRemove", "afterRemove", "beforeUpdate",
    "afterUpdate", "beforeMultipleInsert", "afterMultipleInsert", "beforeMultipleRemove",
    "afterMultipleRemove", "beforeMultipleUpdate", "afterMultipleUpdate">>

\* The languages of the tokenizer, and one that is not among them.
SupportedLanguages == {"english", "italian"}

\* createTokenizer(config): english unless the configuration names a language.
createTokenizer(config) ==
  LET lang == IF config.language = Undefined THEN "english" ELSE config.language
  IN IF lang \notin SupportedLanguages
       THEN [error |-> "LANGUAGE_NOT_SUPPORTED", tokenizer |-> NoComponent]
       ELSE [error |-> "", tokenizer |-> TokenizerComponent(lang)]

\* The first loop: a function component that is given is a function, one
\* that is not given becomes the default.
withDefaultComponents(components) ==
  [key \in DOMAIN components \cup Range(FUNCTION_COMPONENTS) |->
     IF key \in Range(FUNCTION_COMPONENTS) /\ ~Truthy(ComponentAt(components, key))
       THEN DefaultComponent
       ELSE components[key]]

\* The second loop: a hook that is not given becomes [], one that is not an
\* array becomes the array of itself.
hookArrayOfArraysOnly(value) ==
  IF ~Truthy(value) THEN ArrayComponent(<<>>) ELSE value

hookArray(value) ==
  IF ~Truthy(value) THEN ArrayComponent(<<>>)
  ELSE IF value.kind # "array" THEN ArrayComponent(<<value.kind>>)
  ELSE value

withHookArrays(components) ==
  [key \in DOMAIN components \cup Range(SINGLE_OR_ARRAY_COMPONENTS) |->
     IF key \in Range(SINGLE_OR_ARRAY_COMPONENTS)
       THEN hookArray(ComponentAt(components, key))
       ELSE components[key]]

validateComponents(components) ==
  LET defaulted == withDefaultComponents(components)
      hooked == withHookArrays(defaulted)
      notFunction == \E key \in Range(FUNCTION_COMPONENTS) :
                       /\ Truthy(ComponentAt(components, key))
                       /\ ~IsFunction(components[key])
      notFunctions == \E key \in Range(SINGLE_OR_ARRAY_COMPONENTS) :
                        \E fn \in Range(hooked[key].items) : fn # "function"
      unsupported == \E rawKey \in DOMAIN hooked :
                       /\ rawKey \notin Range(OBJECT_COMPONENTS)
                       /\ rawKey \notin Range(FUNCTION_COMPONENTS)
                       /\ rawKey \notin Range(SINGLE_OR_ARRAY_COMPONENTS)
  IN IF notFunction THEN [error |-> "COMPONENT_MUST_BE_FUNCTION", components |-> defaulted]
     ELSE IF notFunctions
       THEN [error |-> "COMPONENT_MUST_BE_FUNCTION_OR_ARRAY_FUNCTIONS", components |-> hooked]
     ELSE IF unsupported THEN [error |-> "UNSUPPORTED_COMPONENT", components |-> hooked]
     ELSE [error |-> "", components |-> hooked]

NoOrama ==
  [tokenizer |-> NoComponent, components |-> EmptyMap, index |-> EmptyIndex,
   sorting |-> DisabledSorter]

CreateThrew(error) == [error |-> error, returned |-> FALSE, orama |-> NoOrama]

\* if (components.tokenizer && language)
languageWithoutTokenizerOnly(componentsTokenizer, lang) == FALSE

languageWithTokenizer(componentsTokenizer, lang) ==
  Truthy(componentsTokenizer) /\ lang # Undefined

create(sch, sort, lang, components) ==
  LET componentsTokenizer == ComponentAt(components, "tokenizer")
      made == IF ~Truthy(componentsTokenizer)
                THEN createTokenizer(TokenizerConfig(IF lang = Undefined THEN "english"
                                                     ELSE lang))
              ELSE IF componentsTokenizer.kind # "tokenizer"
                THEN createTokenizer(componentsTokenizer)
              ELSE [error |-> "", tokenizer |-> componentsTokenizer]
      validated == validateComponents(components)
      idx == indexCreate(sch, EmptyIndex, "")
      sorting == sorterCreate(sch, sort)
  IN IF made.error # "" THEN CreateThrew(made.error)
     ELSE IF languageWithTokenizer(componentsTokenizer, lang)
       THEN CreateThrew("NO_LANGUAGE_WITH_CUSTOM_TOKENIZER")
     ELSE IF validated.error # "" THEN CreateThrew(validated.error)
     ELSE IF idx.error # "" THEN CreateThrew(idx.error)
     ELSE IF sorting.error # "" THEN CreateThrew(sorting.error)
     ELSE [error |-> "", returned |-> TRUE,
           orama |-> [tokenizer |-> made.tokenizer, components |-> validated.components,
                      index |-> idx.index, sorting |-> sorting]]

\* The arguments create is called with.
DatabaseSchemas ==
  {<<Entry("title", TypeName("string"))>>,
   <<Entry("price", TypeName("number")), Entry("tags", TypeName("string[]"))>>,
   <<Entry("at", TypeName("date"))>>}

DatabaseSorts == {SortConfig("undefined", <<>>), SortConfig("false", <<>>)}

CreateLanguages == {Undefined, "english", "italian", "klingon"}

Given(key, values) == {EmptyMap} \cup {MapSet(EmptyMap, key, value) : value \in values}

CreateComponents ==
  {Spread(Spread(tokenizer, validateSchema), Spread(beforeInsert, plugins)) :
     tokenizer \in Given("tokenizer",
                         {TokenizerComponent("english"), TokenizerConfig(Undefined),
                          TokenizerConfig("italian"), TokenizerConfig("klingon")}),
     validateSchema \in Given("validateSchema",
                              {FunctionComponent, ObjectComponent, NullComponent}),
     beforeInsert \in Given("beforeInsert",
                            {NoComponent, FunctionComponent, ObjectComponent,
                             ArrayComponent(<<>>), ArrayComponent(<<"function", "function">>),
                             ArrayComponent(<<"function", "object">>)}),
     plugins \in Given("plugins", {FunctionComponent})}

NotCreatedWith(sort, lang, components) ==
  [called |-> FALSE, sort |-> sort, language |-> lang, components |-> components]
    @@ CreateThrew("")

CreateDatabaseCall ==
  /\ ~created.called
  /\ created' = [called |-> TRUE, sort |-> created.sort, language |-> created.language,
                 components |-> created.components]
                  @@ create(createSchema, created.sort, created.language,
                            created.components)
  /\ UNCHANGED createSchema

----------------------------------------------------------------------------
(* searchByWhereClause: components/index.ts *)

\* The lookups of the trees, as sets of ids. An exact find of the radix tree
\* gives the ids of the term's own node.
radixFind(node, term) == IF term \in DOMAIN node THEN DOMAIN node[term] ELSE {}

avlIdsOf(node, keys) == UNION {Range(node[k]) : k \in keys}

avlGreaterThan(node, key, inclusive) ==
  avlIdsOf(node, {k \in DOMAIN node : k > key \/ (inclusive /\ k = key)})

avlLessThan(node, key, inclusive) ==
  avlIdsOf(node, {k \in DOMAIN node : k < key \/ (inclusive /\ k = key)})

\* avlFind(node, key) ?? []
avlFind(node, key) == avlIdsOf(node, DOMAIN node \cap {key})

avlRangeSearch(node, min, max) ==
  avlIdsOf(node, {k \in DOMAIN node : min <= k /\ k <= max})

\* intersect(arrays) of utils
intersect(arrays) ==
  IF arrays = <<>> THEN {}
  ELSE {x \in arrays[1] : \A i \in DOMAIN arrays : x \in arrays[i]}

\* A filter value: a boolean, a string or a list of strings (strings holds
\* the one string or the strings of the list, each as the text of its words),
\* or an operator object (keys holds its keys in order, with their values).
BooleanFilter(b) == [kind |-> "boolean", bool |-> b, strings |-> <<>>, keys |-> <<>>]

StringFilter(strings) ==
  [kind |-> "string", bool |-> FALSE, strings |-> strings, keys |-> <<>>]

OperatorFilter(keys) ==
  [kind |-> "operator", bool |-> FALSE, strings |-> <<>>, keys |-> keys]

Key(op, value) == [op |-> op, value |-> value, max |-> value]

Between(min, max) == [op |-> "between", value |-> min, max |-> max]

Filter1(param, operation) == [param |-> param, operation |-> operation]

Found(ids) == [ids |-> ids, error |-> ""]

Thrown(error) == [ids |-> {}, error |-> error]

booleanFilterUnchecked(idx, param, operation) ==
  IF param \notin DOMAIN idx.indexes THEN Found({})
  ELSE Found(Range(idx.indexes[param][BooleanKey(operation.bool)]))

booleanFilter(idx, param, operation) ==
  IF param \notin DOMAIN idx.indexes THEN Thrown("UNKNOWN_FILTER_PROPERTY")
  ELSE Found(Range(idx.indexes[param][BooleanKey(operation.bool)]))

\* for (const raw of [operation].flat()): the first token of each string is
\* looked up; a string without tokens gives radixFind the term undefined,
\* which either throws a TypeError or finds nothing.
RECURSIVE stringTerms(_, _, _, _, _)
stringTerms(node, strings, allowDup, undefinedTermThrows, ids) ==
  IF strings = <<>> THEN Found(ids)
  ELSE LET term == Tokenize(Head(strings), allowDup)
       IN IF term = <<>>
            THEN (IF undefinedTermThrows THEN Thrown("TypeError")
                  ELSE stringTerms(node, Tail(strings), allowDup, undefinedTermThrows, ids))
            ELSE stringTerms(node, Tail(strings), allowDup, undefinedTermThrows,
                             ids \cup radixFind(node, term[1]))

stringFilter(idx, param, operation, allowDup, undefinedTermThrows) ==
  IF param \notin DOMAIN idx.indexes THEN Thrown("UNKNOWN_FILTER_PROPERTY")
  ELSE stringTerms(idx.indexes[param], operation.strings, allowDup,
                   undefinedTermThrows, {})

operatorFilterOfFirstKey(idx, param, operation) ==
  LET operationKeys == operation.keys
  IN IF param \notin DOMAIN idx.indexes THEN Thrown("UNKNOWN_FILTER_PROPERTY")
     ELSE IF operationKeys = <<>> THEN Found({})
     ELSE LET operationOpt == operationKeys[1].op
              operationValue == operationKeys[1].value
              AVLNode == idx.indexes[param]
          IN CASE operationOpt = "gt" -> Found(avlGreaterThan(AVLNode, operationValue, FALSE))
               [] operationOpt = "gte" -> Found(avlGreaterThan(AVLNode, operationValue, TRUE))
               [] operationOpt = "lt" -> Found(avlLessThan(AVLNode, operationValue, FALSE))
               [] operationOpt = "lte" -> Found(avlLessThan(AVLNode, operationValue, TRUE))
               [] operationOpt = "eq" -> Found(avlFind(AVLNode, operationValue))
               [] operationOpt = "between" ->
                    Found(avlRangeSearch(AVLNode, operationValue, operationKeys[1].max))
               [] OTHER -> Found({})

operatorFilter(idx, param, operation) ==
  LET operationKeys == operation.keys
  IN IF Len(operationKeys) > 1 THEN Thrown("INVALID_FILTER_OPERATION")
     ELSE IF param \notin DOMAIN idx.indexes THEN Thrown("UNKNOWN_FILTER_PROPERTY")
     ELSE IF operationKeys = <<>> THEN Found({})
     ELSE LET operationOpt == operationKeys[1].op
              operationValue == operationKeys[1].value
              AVLNode == idx.indexes[param]
          IN CASE operationOpt = "gt" -> Found(avlGreaterThan(AVLNode, operationValue, FALSE))
               [] operationOpt = "gte" -> Found(avlGreaterThan(AVLNode, operationValue, TRUE))
               [] operationOpt = "lt" -> Found(avlLessThan(AVLNode, operationValue, FALSE))
               [] operationOpt = "lte" -> Found(avlLessThan(AVLNode, operationValue, TRUE))
               [] operationOpt = "eq" -> Found(avlFind(AVLNode, operationValue))
               [] operationOpt = "between" ->
                    Found(avlRangeSearch(AVLNode, operationValue, operationKeys[1].max))
               [] OTHER -> Found({})

\* What one pass of the loop over filterKeys finds or throws.
filterCandidates(idx, param, operation, allowDup, undefinedTermThrows) ==
  CASE operation.kind = "boolean" -> booleanFilter(idx, param, operation)
    [] operation.kind = "string" ->
         stringFilter(idx, param, operation, allowDup, undefinedTermThrows)
    [] operation.kind = "operator" -> operatorFilter(idx, param, operation)

\* intersect(Object.values(filtersMap)) by any of the properties
whereResultOfAny(filtersMap) == UNION {filtersMap[param] : param \in DOMAIN filtersMap}

\* const result = intersect(Object.values(filtersMap))
whereResult(filtersMap) ==
  LET params == CHOOSE s \in Perms(DOMAIN filtersMap) : TRUE
  IN intersect([i \in DOMAIN params |-> filtersMap[params[i]]])

\* The loop over filterKeys from the i-th filter on: the filtersMap it has
\* filled, and the error thrown at a filter, or the result.
RECURSIVE whereLoop(_, _, _, _, _, _)
whereLoop(idx, filters, i, filtersMap, allowDup, undefinedTermThrows) ==
  IF i > Len(filters)
    THEN [filtersMap |-> filtersMap, returned |-> TRUE, result |-> whereResult(filtersMap),
          error |-> "", at |-> 0]
  ELSE LET param == filters[i].param
           found == filterCandidates(idx, param, filters[i].operation, allowDup,
                                     undefinedTermThrows)
       IN IF found.error # ""
            THEN [filtersMap |-> filtersMap, returned |-> FALSE, result |-> {},
                  error |-> found.error, at |-> i]
            ELSE whereLoop(idx, filters, i + 1,
                           [filtersMap EXCEPT ![param] = @ \cup found.ids],
                           allowDup, undefinedTermThrows)

searchByWhereClause(idx, filters, allowDup, undefinedTermThrows) ==
  whereLoop(idx, filters, 1, [param \in {filters[i].param : i \in DOMAIN filters} |-> {}],
            allowDup, undefinedTermThrows)

\* The index that is filtered and the documents put into it.
WhereSchema ==
  <<Entry("inStock", TypeName("boolean")), Entry("title", TypeName("string")),
    Entry("price", TypeName("number"))>>

WhereDocuments ==
  {[inStock |-> TRUE, title |-> <<"a">>, price |-> 10],
   [inStock |-> FALSE, title |-> <<"b">>, price |-> 20],
   [inStock |-> TRUE, title |-> <<"a", "b">>, price |-> 20],
   [title |-> <<"b">>]}

\* The filters of one property, by the type of the property; a property the
\* index does not have ("nope") is given a filter of every shape.
FiltersOf(param) ==
  LET booleans == {BooleanFilter(b) : b \in BOOLEAN}
      strings == {StringFilter(s) : s \in {<< <<"a">> >>, << <<"a", "b">> >>, << <<>> >>,
                                            << <<"a">>, <<"b">> >>}}
      operators == {OperatorFilter(<<k>>) :
                      k \in {Key("gt", 10), Key("gte", 20), Key("lt", 20), Key("lte", 10),
                              Key("eq", 10), Between(10, 20)}}
      twoKeys == OperatorFilter(<<Key("gt", 10), Key("lt", 20)>>)
  IN CASE param = "inStock" -> booleans
       [] param = "title" -> strings
       [] param = "price" -> operators \cup {twoKeys}
       [] param = "nope" ->
            {BooleanFilter(TRUE), StringFilter(<< <<"a">> >>),
             OperatorFilter(<<Key("eq", 10)>>), twoKeys}

FilterParams == {"inStock", "title", "price", "nope"}

\* The where clauses: one or two properties, in the order of their keys.
WhereFilters ==
  LET one == UNION {{Filter1(p, o) : o \in FiltersOf(p)} : p \in FilterParams}
  IN {<<f>> : f \in one}
     \cup {<<fg[1], fg[2]>> : fg \in {x \in one \X one : x[1].param # x[2].param}}

NoWhereCall ==
  [called |-> FALSE, filters |-> <<>>, filtersMap |-> EmptyMap, returned |-> FALSE,
   result |-> {}, error |-> "", at |-> 0]

WhereCall(filters, undefinedTermThrows) ==
  LET r == searchByWhereClause(index, filters, allowDuplicates, undefinedTermThrows)
  IN /\ ~whereCall.called
     /\ whereCall' = [called |-> TRUE, filters |-> filters] @@ r

----------------------------------------------------------------------------
(* search and calculateResultScores: components/index.ts *)

\* The letters of the words that are indexed and searched.
Letters(word) ==
  CASE word = "a" -> <<"a">>
    [] word = "ab" -> <<"a", "b">>
    [] word = "b" -> <<"b">>
    [] word = "c" -> <<"c">>

StartsWith(word, term) ==
  /\ Len(Letters(term)) <= Len(Letters(word))
  /\ SubSeq(Letters(word), 1, Len(Letters(term))) = Letters(term)

Min2(a, b) == IF a < b THEN a ELSE b

RECURSIVE Levenshtein(_, _)
Levenshtein(s, t) ==
  IF s = <<>> THEN Len(t)
  ELSE IF t = <<>> THEN Len(s)
  ELSE IF Head(s) = Head(t) THEN Levenshtein(Tail(s), Tail(t))
  ELSE 1 + Min2(Levenshtein(Tail(s), Tail(t)),
                Min2(Levenshtein(Tail(s), t), Levenshtein(s, Tail(t))))

RECURSIVE Ascending(_)
Ascending(S) ==
  IF S = {} THEN <<>>
  ELSE LET least == CHOOSE x \in S : \A y \in S : x <= y
       IN <<least>> \o Ascending(S \ {least})

\* find(root, {term, exact, tolerance}): the words that match, each with the
\* ids of its node. exact gives the term's own node; otherwise the words the
\* term is a prefix of, and with a tolerance the words within that distance.
radixFindWords(node, term, exact, tolerance) ==
  LET matched ==
        {w \in DOMAIN node :
           IF exact THEN w = term
           ELSE \/ StartsWith(w, term)
                \/ tolerance > 0 /\ Levenshtein(Letters(w), Letters(term)) <= tolerance}
  IN [w \in matched |-> Ascending(DOMAIN node[w])]

\* The keys of an object, in the order for..in visits them.
WordOrder == <<"a", "ab", "b", "c">>

KeysOf(obj) == Filter(WordOrder, DOMAIN obj)

RECURSIVE idsOfEveryKey(_, _)
idsOfEveryKey(searchResult, keys) ==
  IF keys = <<>> THEN <<>>
  ELSE searchResult[Head(keys)] \o idsOfEveryKey(searchResult, Tail(keys))

idsPushed(searchResult) == idsOfEveryKey(searchResult, KeysOf(searchResult))

\* const ids = new Set(); for (const key in searchResult)
\*   for (const id of searchResult[key]) ids.add(id); Array.from(ids)
idsAdded(searchResult) == Dedup(idsOfEveryKey(searchResult, KeysOf(searchResult)))

\* BM25 is kept as the arguments it is given.
BM25(tf, matchingCount, docsCount, fieldLength, averageFieldLength) ==
  [tf |-> tf, matchingCount |-> matchingCount, docsCount |-> docsCount,
   fieldLength |-> fieldLength, averageFieldLength |-> averageFieldLength]

SlotOf(obj, key) == IF key \in DOMAIN obj THEN obj[key] ELSE UndefinedSlot

\* oramaFrequencies?.[internalId]?.[term] ?? 0
termFrequency(oramaFrequencies, internalId, term) ==
  LET ofDocument == SlotOf(oramaFrequencies, internalId)
  IN IF ofDocument # UndefinedSlot /\ term \in DOMAIN ofDocument[1]
       THEN ofDocument[1][term]
       ELSE Whole(0)

calculateResultScores(idx, prop, term, ids, docsCount) ==
  LET avgFieldLength == idx.avgFieldLength[prop]
      fieldLengths == idx.fieldLengths[prop]
      oramaOccurrencies == idx.tokenOccurrencies[prop]
      oramaFrequencies == idx.frequencies[prop]
      termOccurrencies ==
        IF term \in DOMAIN oramaOccurrencies THEN oramaOccurrencies[term] ELSE 0
  IN [k \in 1..Len(ids) |->
        <<ids[k], BM25(termFrequency(oramaFrequencies, ids[k], term), termOccurrencies,
                       docsCount, SlotOf(fieldLengths, ids[k]), avgFieldLength)>>]

search(idx, prop, term, exact, tolerance, docsCount) ==
  IF prop \notin DOMAIN idx.tokenOccurrencies THEN <<>>
  ELSE calculateResultScores(
         idx, prop, term,
         idsAdded(radixFindWords(idx.indexes[prop], term, exact, tolerance)), docsCount)

\* The documents that are searched: titles of words that share a prefix.
SearchDocuments ==
  {[inStock |-> TRUE, title |-> <<"a">>, price |-> 10],
   [inStock |-> FALSE, title |-> <<"ab", "a">>, price |-> 20],
   [inStock |-> TRUE, title |-> <<"b", "ab">>, price |-> 20],
   [title |-> <<"ab">>]}

SearchTerms == {"a", "ab", "b", "c"}

SearchProperties == {"title", "price", "nope"}

\* context.params: a tolerance is given to searches that are not exact.
SearchParams ==
  {[exact |-> TRUE, tolerance |-> 0], [exact |-> FALSE, tolerance |-> 0],
   [exact |-> FALSE, tolerance |-> 1]}

SearchCall(prop, term, exact, tolerance) ==
  whereCall' = [called |-> TRUE, op |-> "search", prop |-> prop, term |-> term,
                exact |-> exact, tolerance |-> tolerance,
                result |-> search(index, prop, term, exact, tolerance,
                                  Cardinality(DOMAIN docsStore))]

SearchByWhereClauseCall(filters, undefinedTermThrows) ==
  whereCall' = [called |-> TRUE, op |-> "searchByWhereClause", filters |-> filters]
                 @@ searchByWhereClause(index, filters, allowDuplicates,
                                        undefinedTermThrows)

----------------------------------------------------------------------------
(* Specifications *)

SorterIdle ==
  /\ sortArgs = NoArgs
  /\ schema = EmptyMap
  /\ sortableProperties = <<>>
  /\ sortablePropertiesWithTypes = EmptyMap
  /\ enabled = FALSE
  /\ isSorted = FALSE
  /\ language = Undefined
  /\ sorts = EmptyMap
  /\ stored = EmptyMap
  /\ everInserted = EmptyMap
  /\ reinserted = FALSE
  /\ nInserts = 0
  /\ lastCall = NoCall

\* The sorter after create; schema is what create makes sortable when sort
\* is enabled, which are the paths insert and remove are called with.
SorterInit ==
  /\ sortArgs \in SorterCreateArgs
  /\ LET sorter == sorterCreate(sortArgs.schema, sortArgs.config)
     IN /\ enabled = sorter.enabled
        /\ isSorted = sorter.isSorted
        /\ language = sorter.language
        /\ sortableProperties = sorter.sortableProperties
        /\ sortablePropertiesWithTypes = sorter.sortablePropertiesWithTypes
        /\ sorts = sorter.sorts
  /\ schema = innerCreate(sortArgs.schema, sortArgs.config.unsortableProperties,
                          "").sortablePropertiesWithTypes
  /\ stored = [p \in DOMAIN schema |-> EmptyMap]
  /\ everInserted = [p \in DOMAIN schema |-> {}]
  /\ reinserted = FALSE
  /\ nInserts = 0
  /\ lastCall = NoCall

WhereIdle == whereCall = NoWhereCall

ScenarioIdle == scenario = [phase |-> "idle", snapshot |-> EmptyIndex, removed |-> <<>>]

CreateIdle == createSchema = <<>> /\ created = NotCreated

IndexIdle ==
  /\ index = EmptyIndex
  /\ allowDuplicates = FALSE
  /\ docsStore = EmptyMap
  /\ nIndexCalls = 0
  /\ indexCall = NoIndexCall(EmptyIndex)

IndexInit ==
  /\ index \in {indexCreate(sch, EmptyIndex, "").index : sch \in IndexSchemas}
  /\ allowDuplicates \in BOOLEAN
  /\ docsStore = EmptyMap
  /\ nIndexCalls = 0
  /\ indexCall = NoIndexCall(index)

\* The sorter
Insert ==
  /\ \E p \in DOMAIN schema, id \in Ids :
       \E v \in SortValues(schema[p]) : insert(p, id, v, "english")
  /\ UNCHANGED <<indexVars, scenarioVars, createVars, whereVars>>

Remove ==
  /\ \E p \in DOMAIN schema, id \in Ids : remove(p, id)
  /\ UNCHANGED <<indexVars, scenarioVars, createVars, whereVars>>

SortBy ==
  /\ \E p \in SortByProperties : sortBy(p)
  /\ UNCHANGED <<indexVars, scenarioVars, createVars, whereVars>>

Save ==
  /\ save
  /\ UNCHANGED <<indexVars, scenarioVars, createVars, whereVars>>

Load ==
  /\ loadSaved
  /\ UNCHANGED <<indexVars, scenarioVars, createVars, whereVars>>

Init == SorterInit /\ IndexIdle /\ ScenarioIdle /\ CreateIdle /\ WhereIdle

Next == Insert \/ Remove \/ SortBy

Spec == Init /\ [][Next]_vars

\* The sorter with save and load, on the sorters with the smaller budget of
\* inserts: the disabled ones and those of a schema of two properties.
SaveInit ==
  /\ Init
  /\ InsertBudget(schema) = MaxInsertsMulti

\* The value each document has: the values are not in the order of the ids,
\* and two documents have the same one.
ValueOf(type, id) ==
  CASE type = "number" -> IF id = 1 THEN 20 ELSE 10
    [] type = "boolean" -> id # 2
    [] type = "string" -> IF id = 1 THEN "b" ELSE "a"

InsertValueOf ==
  /\ \E p \in DOMAIN schema, id \in Ids : insert(p, id, ValueOf(schema[p], id), "english")
  /\ UNCHANGED <<indexVars, scenarioVars, createVars, whereVars>>

SaveNext == InsertValueOf \/ Remove \/ SortBy \/ Save \/ Load

SaveSpec == SaveInit /\ [][SaveNext]_vars

\* The sorter of one number property where document 1 is the only one that
\* is inserted again after its removal.
InsertOnceBut1 ==
  /\ \E p \in DOMAIN schema, id \in Ids :
       /\ id = 1 \/ id \notin everInserted[p]
       /\ \E v \in SortValues(schema[p]) : insert(p, id, v, "english")
  /\ UNCHANGED <<indexVars, scenarioVars, createVars, whereVars>>

ReinsertInit ==
  /\ Init
  /\ enabled
  /\ Len(sortArgs.schema) = 1
  /\ sortArgs.schema[1].prop = "price"

ReinsertNext == InsertOnceBut1 \/ Remove \/ SortBy \/ Save

ReinsertSpec == ReinsertInit /\ [][ReinsertNext]_vars

\* The index
InsertDocument ==
  /\ nIndexCalls < MaxIndexCalls
  /\ \E id \in Ids, doc \in Documents(index) : InsertDocumentCall(id, doc)
  /\ UNCHANGED <<sorterVars, scenarioVars, createVars, whereVars>>

RemoveDocument ==
  /\ nIndexCalls < MaxIndexCalls
  /\ \E id \in Ids : RemoveDocumentCall(id)
  /\ UNCHANGED <<sorterVars, scenarioVars, createVars, whereVars>>

IndexSpecInit == SorterIdle /\ IndexInit /\ ScenarioIdle /\ CreateIdle /\ WhereIdle

IndexNext == InsertDocument \/ RemoveDocument

IndexSpec == IndexSpecInit /\ [][IndexNext]_vars

\* The index of a boolean or boolean[] property, where remove is also called
\* for ids and values that were not inserted.
RemoveValues ==
  /\ nIndexCalls < MaxIndexCalls
  /\ \E id \in Ids, doc \in Documents(index) : RemoveValuesCall(id, doc)
  /\ UNCHANGED <<sorterVars, scenarioVars, createVars, whereVars>>

BooleanInit ==
  /\ IndexSpecInit
  /\ \A p \in DOMAIN index.indexes :
       index.searchablePropertiesWithTypes[p] \in {"boolean", "boolean[]"}

BooleanNext == InsertDocument \/ RemoveDocument \/ RemoveValues

BooleanSpec == BooleanInit /\ [][BooleanNext]_vars

\* Three documents with a string each are inserted, all but one are removed,
\* and the removed ones are inserted again.
RestoreSchema == <<Entry("title", TypeName("string"))>>

StringDocuments(idx) ==
  {doc \in Documents(idx) : DOMAIN doc = Range(idx.searchableProperties)}

RestoreBuild ==
  /\ scenario.phase = "build"
  /\ \E id \in Ids, doc \in StringDocuments(index) : InsertDocumentCall(id, doc)
  /\ scenario' = IF DOMAIN docsStore' = Ids
                   THEN [scenario EXCEPT !.phase = "remove", !.snapshot = index']
                   ELSE scenario
  /\ UNCHANGED <<sorterVars, createVars, whereVars>>

RestoreRemove ==
  /\ scenario.phase = "remove"
  /\ \E id \in DOMAIN docsStore :
       /\ RemoveDocumentCall(id)
       /\ scenario' = [scenario EXCEPT
                         !.removed = Append(@, [id |-> id, doc |-> docsStore[id]]),
                         !.phase = IF Cardinality(DOMAIN docsStore') = 1
                                     THEN "reinsert" ELSE "remove"]
  /\ UNCHANGED <<sorterVars, createVars, whereVars>>

RestoreReinsert ==
  /\ scenario.phase = "reinsert"
  /\ \E i \in DOMAIN scenario.removed :
       InsertDocumentCall(scenario.removed[i].id, scenario.removed[i].doc)
  /\ scenario' = [scenario EXCEPT
                    !.phase = IF DOMAIN docsStore' = Ids THEN "done" ELSE "reinsert"]
  /\ UNCHANGED <<sorterVars, createVars, whereVars>>

RestoreInit ==
  /\ SorterIdle
  /\ CreateIdle
  /\ WhereIdle
  /\ index = indexCreate(RestoreSchema, EmptyIndex, "").index
  /\ allowDuplicates \in BOOLEAN
  /\ docsStore = EmptyMap
  /\ nIndexCalls = 0
  /\ indexCall = NoIndexCall(index)
  /\ scenario = [phase |-> "build", snapshot |-> EmptyIndex, removed |-> <<>>]

RestoreNext == RestoreBuild \/ RestoreRemove \/ RestoreReinsert

RestoreSpec == RestoreInit /\ [][RestoreNext]_vars

\* Index create
Create ==
  /\ CreateCall
  /\ UNCHANGED <<sorterVars, indexVars, scenarioVars, whereVars>>

CreateInit ==
  /\ SorterIdle
  /\ IndexIdle
  /\ ScenarioIdle
  /\ WhereIdle
  /\ createSchema \in CreateSchemasOf(MaxDepth)
  /\ created = NotCreated

CreateNext == Create

CreateSpec == CreateInit /\ [][CreateNext]_vars

\* create of a database, called once with a schema, a sort configuration, a
\* language and components.
CreateDatabase ==
  /\ CreateDatabaseCall
  /\ UNCHANGED <<sorterVars, indexVars, scenarioVars, whereVars>>

DatabaseInit ==
  /\ SorterIdle
  /\ IndexIdle
  /\ ScenarioIdle
  /\ WhereIdle
  /\ createSchema \in DatabaseSchemas
  /\ created \in {NotCreatedWith(sort, lang, components) :
                    sort \in DatabaseSorts, lang \in CreateLanguages,
                    components \in CreateComponents}

DatabaseNext == CreateDatabase

DatabaseSpec == DatabaseInit /\ [][DatabaseNext]_vars

\* searchByWhereClause on an index of a boolean, a string and a number property
CreateSorter ==
  /\ createSorter
  /\ UNCHANGED <<indexVars, scenarioVars, createVars, whereVars>>

SorterCreateInit ==
  /\ sortArgs \in [schema : CreateSchemasOf(MaxDepth), config : SorterConfigs]
  /\ schema = EmptyMap
  /\ sortableProperties = <<>>
  /\ sortablePropertiesWithTypes = EmptyMap
  /\ enabled = FALSE
  /\ isSorted = FALSE
  /\ language = Undefined
  /\ sorts = EmptyMap
  /\ stored = EmptyMap
  /\ everInserted = EmptyMap
  /\ reinserted = FALSE
  /\ nInserts = 0
  /\ lastCall = NoCall
  /\ IndexIdle
  /\ ScenarioIdle
  /\ CreateIdle
  /\ WhereIdle

SorterCreateNext == CreateSorter

SorterCreateSpec == SorterCreateInit /\ [][SorterCreateNext]_vars

WhereInsert ==
  /\ ~whereCall.called
  /\ nIndexCalls < MaxWhereCalls
  /\ \E id \in Ids, doc \in WhereDocuments : InsertDocumentCall(id, doc)
  /\ UNCHANGED <<sorterVars, scenarioVars, createVars, whereVars>>

WhereRemove ==
  /\ ~whereCall.called
  /\ nIndexCalls < MaxWhereCalls
  /\ \E id \in Ids : RemoveDocumentCall(id)
  /\ UNCHANGED <<sorterVars, scenarioVars, createVars, whereVars>>

Where ==
  /\ \E filters \in WhereFilters, undefinedTermThrows \in BOOLEAN :
       WhereCall(filters, undefinedTermThrows)
  /\ UNCHANGED <<sorterVars, indexVars, scenarioVars, createVars>>

WhereInit ==
  /\ SorterIdle
  /\ ScenarioIdle
  /\ CreateIdle
  /\ WhereIdle
  /\ index = indexCreate(WhereSchema, EmptyIndex, "").index
  /\ allowDuplicates = FALSE
  /\ docsStore = EmptyMap
  /\ nIndexCalls = 0
  /\ indexCall = NoIndexCall(index)

WhereNext == WhereInsert \/ WhereRemove \/ Where

WhereSpec == WhereInit /\ [][WhereNext]_vars

\* Searches and where clauses between the inserts and removes of an index.
SearchInsert ==
  /\ nIndexCalls < MaxWhereCalls
  /\ \E id \in Ids, doc \in SearchDocuments : InsertDocumentCall(id, doc)
  /\ UNCHANGED <<sorterVars, scenarioVars, createVars, whereVars>>

SearchRemove ==
  /\ nIndexCalls < MaxWhereCalls
  /\ \E id \in Ids : RemoveDocumentCall(id)
  /\ UNCHANGED <<sorterVars, scenarioVars, createVars, whereVars>>

Search ==
  /\ \E prop \in SearchProperties, term \in SearchTerms, params \in SearchParams :
       SearchCall(prop, term, params.exact, params.tolerance)
  /\ UNCHANGED <<sorterVars, indexVars, scenarioVars, createVars>>

SearchByWhereClause ==
  /\ \E filters \in {f \in WhereFilters : Len(f) = 1}, undefinedTermThrows \in BOOLEAN :
       SearchByWhereClauseCall(filters, undefinedTermThrows)
  /\ UNCHANGED <<sorterVars, indexVars, scenarioVars, createVars>>

SearchNext == SearchInsert \/ SearchRemove \/ Search \/ SearchByWhereClause

SearchSpec == WhereInit /\ [][SearchNext]_vars

\* insertScalar of a string, one step per stretch of code between two awaits,
\* with searches scheduled at the awaits and between the inserts.
\* The call is at "tokenize" while it awaits tokenizer.tokenize, at
\* "insertDocumentScoreParameters" or "insertTokenScoreParameters" while it
\* awaits those, and rest holds the tokens whose radixInsert is still to come.
AwaitedTexts == {<<"a">>, <<"b">>, <<"a", "b">>, <<"ab", "a">>}

InsertScalarAwaits ==
  indexCall.op = "insertScalar" /\ indexCall.at # "returned"

insertScalarBegins(id, value) ==
  /\ indexCall' = [op |-> "insertScalar", id |-> id, doc |-> [title |-> value],
                   docsCount |-> Cardinality(DOMAIN docsStore) + 1, undo |-> FALSE,
                   base |-> index, prop |-> "title",
                   tokens |-> Tokenize(value, allowDuplicates),
                   rest |-> Tokenize(value, allowDuplicates), at |-> "tokenize"]
  /\ docsStore' = MapSet(docsStore, id, [title |-> value])
  /\ nIndexCalls' = nIndexCalls + 1
  /\ UNCHANGED <<index, allowDuplicates>>

\* The index and the position of the call at its next await, or at its return.
insertScalarResumed(idx, call) ==
  CASE call.at = "tokenize" ->
         [index |-> insertDocumentScoreParameters(idx, call.prop, call.id, call.tokens,
                                                  call.docsCount),
          rest |-> call.rest, at |-> "insertDocumentScoreParameters"]
    [] call.at = "insertDocumentScoreParameters" ->
         IF call.rest = <<>> THEN [index |-> idx, rest |-> <<>>, at |-> "returned"]
         ELSE [index |-> insertTokenScoreParameters(idx, call.prop, call.id, call.tokens,
                                                    Head(call.rest)),
               rest |-> call.rest, at |-> "insertTokenScoreParameters"]
    [] call.at = "insertTokenScoreParameters" ->
         LET inserted == [idx EXCEPT !.indexes[call.prop] =
                                       radixInsert(@, Head(call.rest), call.id)]
             rest == Tail(call.rest)
         IN IF rest = <<>> THEN [index |-> inserted, rest |-> <<>>, at |-> "returned"]
            ELSE [index |-> insertTokenScoreParameters(inserted, call.prop, call.id,
                                                       call.tokens, Head(rest)),
                  rest |-> rest, at |-> "insertTokenScoreParameters"]

InsertScalarBegins ==
  /\ ~InsertScalarAwaits
  /\ nIndexCalls < MaxWhereCalls
  /\ \E id \in Ids \ DOMAIN docsStore, value \in AwaitedTexts : insertScalarBegins(id, value)
  /\ UNCHANGED <<sorterVars, scenarioVars, createVars, whereVars>>

InsertScalarResumes ==
  /\ InsertScalarAwaits
  /\ LET resumed == insertScalarResumed(index, indexCall)
     IN /\ index' = resumed.index
        /\ indexCall' = [indexCall EXCEPT !.rest = resumed.rest, !.at = resumed.at]
  /\ UNCHANGED <<allowDuplicates, docsStore, nIndexCalls>>
  /\ UNCHANGED <<sorterVars, scenarioVars, createVars, whereVars>>

\* The index after the whole insertScalar of the call.
AfterInsertScalar(call) ==
  insertScalar(call.base, call.prop, call.id, call.doc[call.prop], "string",
               allowDuplicates, call.docsCount)

\* A search on the property, with what it would return on the index before
\* and after the insert that is awaiting.
SearchAtAwait ==
  /\ \E term \in SearchTerms, exact \in BOOLEAN :
       LET docsCount == Cardinality(DOMAIN docsStore)
           during == InsertScalarAwaits
       IN whereCall' =
            [called |-> TRUE, op |-> "search", prop |-> "title", term |-> term,
             exact |-> exact, tolerance |-> 0, during |-> during,
             result |-> search(index, "title", term, exact, 0, docsCount),
             before |-> IF during
                          THEN search(indexCall.base, "title", term, exact, 0, docsCount)
                          ELSE <<>>,
             after |-> IF during
                         THEN search(AfterInsertScalar(indexCall), "title", term, exact, 0,
                                     docsCount)
                         ELSE <<>>]
  /\ UNCHANGED <<sorterVars, indexVars, scenarioVars, createVars>>

AwaitInit ==
  /\ SorterIdle
  /\ ScenarioIdle
  /\ CreateIdle
  /\ WhereIdle
  /\ index = indexCreate(RestoreSchema, EmptyIndex, "").index
  /\ allowDuplicates = FALSE
  /\ docsStore = EmptyMap
  /\ nIndexCalls = 0
  /\ indexCall = NoIndexCall(index)

AwaitNext == InsertScalarBegins \/ InsertScalarResumes \/ SearchAtAwait

AwaitSpec == AwaitInit /\ [][AwaitNext]_vars

----------------------------------------------------------------------------
(* Properties of the sorter *)

\* The 1-based place of x in the sequence s, which holds x once.
PlaceOf(s, x) == CHOOSE i \in DOMAIN s : s[i] = x

SortByReturned == lastCall.op = "sortBy" /\ lastCall.err = "none"

\* C1: sortBy on an enabled sorter returns a stable reordering of docIds: the
\* ids with an entry in docs[property] come before the ids with none, the
\* former in ascending order of position for ASC and in descending order for
\* DESC, the latter (and ids of equal position) in their original order.
SortByStableReordering ==
  SortByReturned =>
    \A docIds \in DocIdLists, order \in Orders :
      LET docs == sorts[lastCall.prop].docs
          r == sortByResult(docs, docIds, order)
      IN /\ Len(r) = Len(docIds)
         /\ Range(r) = Range(docIds)
         /\ \A i, j \in DOMAIN r : i < j =>
              /\ r[j] \in DOMAIN docs => r[i] \in DOMAIN docs
              /\ (r[i] \in DOMAIN docs /\ r[j] \in DOMAIN docs) =>
                   /\ order = "ASC" => docs[r[i]] <= docs[r[j]]
                   /\ order = "DESC" => docs[r[i]] >= docs[r[j]]
                   /\ docs[r[i]] = docs[r[j]] =>
                        PlaceOf(docIds, r[i]) < PlaceOf(docIds, r[j])
              /\ (r[i] \notin DOMAIN docs /\ r[j] \notin DOMAIN docs) =>
                   PlaceOf(docIds, r[i]) < PlaceOf(docIds, r[j])

\* C1 witness: a sortBy returned on a property where two un-indexed ids and
\* two indexed ids given in the wrong order are reordered, by ASC and by DESC.
SortByReorders ==
  /\ SortByReturned
  /\ \E a, b, c \in Ids :
       LET docs == sorts[lastCall.prop].docs
       IN /\ a \notin DOMAIN docs /\ b \in DOMAIN docs /\ c \in DOMAIN docs
          /\ docs[b] > docs[c]
          /\ sortByResult(docs, <<a, b, c>>, "ASC") = <<c, b, a>>
          /\ sortByResult(docs, <<a, c, b>>, "DESC") = <<b, c, a>>

\* Equal values are contiguous (boolean), or the values do not decrease.
SortedByValue(type, orderedDocs) ==
  \A i, j \in DOMAIN orderedDocs : i < j =>
    CASE type = "number" -> orderedDocs[i][2] <= orderedDocs[j][2]
      [] type = "string" -> stringSort(language, orderedDocs[i], orderedDocs[j]) <= 0
      [] type = "boolean" ->
           \A k \in DOMAIN orderedDocs :
             (i < k /\ k < j /\ orderedDocs[i][2] = orderedDocs[j][2])
               => orderedDocs[k][2] = orderedDocs[i][2]

\* C2: after a sortBy on p, orderedDocs[p] is sorted by value and
\* docs[p][id] = i exactly when orderedDocs[p][i] is the entry of id.
SortByLeavesDocsMatchingOrderedDocs ==
  SortByReturned =>
    LET s == sorts[lastCall.prop]
    IN /\ SortedByValue(s.type, s.orderedDocs)
       /\ \A id \in Ids, i \in 0 .. (MaxInserts + 1) :
            (id \in DOMAIN s.docs /\ s.docs[id] = i)
              <=> (i + 1 \in DOMAIN s.orderedDocs /\ s.orderedDocs[i + 1][1] = id)

\* C3: remove on an enabled sorter, for an id that has an entry in docs[prop]
\* at any position (position 0 too), deletes the id from docs[prop] and adds
\* it to the pending removals of prop.
RemoveDeletesEveryIndexedId ==
  (lastCall.op = "remove" /\ enabled /\ lastCall.index >= 0) =>
    /\ lastCall.id \notin DOMAIN sorts[lastCall.prop].docs
    /\ lastCall.id \in sorts[lastCall.prop].orderedDocsToRemove

\* C4: on a number property where no id was inserted twice, sortBy ASC gives
\* the candidates that are inserted and not removed in non-decreasing order
\* of their inserted values, ahead of the candidates that were never inserted.
SortByAscOrdersStoredIdsByValue ==
  (SortByReturned /\ schema[lastCall.prop] = "number" /\ ~reinserted) =>
    \A docIds \in DocIdLists :
      LET p == lastCall.prop
          r == sortByResult(sorts[p].docs, docIds, "ASC")
      IN \A i, j \in DOMAIN r : i < j =>
           /\ (r[i] \in DOMAIN stored[p] /\ r[j] \in DOMAIN stored[p]) =>
                stored[p][r[i]] <= stored[p][r[j]]
           /\ r[j] \in DOMAIN stored[p] => r[i] \in everInserted[p]

\* C4 witness: a sortBy that flushed a removal made after the last sort, so
\* that a stored id keeps a position past the end of orderedDocs, and the
\* stored ids have different values.
SortByAfterRemovalKeepsStalePositions ==
  /\ SortByReturned /\ schema[lastCall.prop] = "number" /\ ~reinserted
  /\ lastCall.flushed /\ lastCall.wasSorted
  /\ LET p == lastCall.prop
     IN \E a, b \in DOMAIN stored[p] :
          /\ stored[p][a] < stored[p][b]
          /\ sorts[p].docs[b] >= Len(sorts[p].orderedDocs)
          /\ sortByResult(sorts[p].docs, <<b, a>>, "ASC") = <<a, b>>

----------------------------------------------------------------------------
(* Properties of the index *)

RECURSIVE SumOver(_, _)
SumOver(f, S) ==
  IF S = {} THEN 0
  ELSE LET x == CHOOSE y \in S : TRUE IN f[x][1] + SumOver(f, S \ {x})

StringProperties == DOMAIN index.avgFieldLength

\* C5: for every string or string[] property p, avgFieldLength[p] times the
\* number of documents whose fieldLengths[p] entry is defined equals the sum
\* of those entries, after any insert and remove calls whose docsCount is the
\* number of stored documents.
AvgFieldLengthIsMeanOfFieldLengths ==
  \A p \in StringProperties :
    LET fl == index.fieldLengths[p]
        defined == {d \in DOMAIN fl : fl[d] # UndefinedSlot}
    IN Times(index.avgFieldLength[p], Cardinality(defined)) = Whole(SumOver(fl, defined))

DocumentsWithTerm(p, t) ==
  LET fr == index.frequencies[p]
  IN {d \in DOMAIN fr : /\ fr[d] # UndefinedSlot
                        /\ t \in DOMAIN fr[d][1]
                        /\ fr[d][1][t][1] > 0}

\* C6: for every string or string[] property p and every term t,
\* tokenOccurrencies[p][t] (0 for a term that has no entry) is the number of
\* documents d with frequencies[p][d][t] > 0.
TokenOccurrenciesCountDocuments ==
  \A p \in StringProperties : \A t \in {"a", "b"} :
    LET occ == index.tokenOccurrencies[p]
    IN (IF t \in DOMAIN occ THEN occ[t] ELSE 0) = Cardinality(DocumentsWithTerm(p, t))

\* C7: after index remove of a string value on property p with docsCount = 1,
\* avgFieldLength[p] is 0.
RemoveOfLastDocumentResetsAvgFieldLength ==
  (indexCall.op = "remove" /\ indexCall.docsCount = 1) =>
    \A p \in DOMAIN indexCall.doc :
      index.searchablePropertiesWithTypes[p] = "string" =>
        index.avgFieldLength[p] = Whole(0)

BooleanProperties ==
  {p \in DOMAIN index.indexes :
     index.searchablePropertiesWithTypes[p] \in {"boolean", "boolean[]"}}

\* C8: index insert of a document that is not indexed followed by index remove
\* of the same values leaves the boolean buckets, avgFieldLength,
\* tokenOccurrencies and fieldLengths of every property as they were before
\* the insert, with no entry where there was none.
InsertThenRemoveRestoresIndex ==
  (indexCall.op = "remove" /\ indexCall.undo) =>
    /\ \A p \in BooleanProperties : index.indexes[p] = indexCall.base.indexes[p]
    /\ index.avgFieldLength = indexCall.base.avgFieldLength
    /\ index.tokenOccurrencies = indexCall.base.tokenOccurrencies
    /\ index.fieldLengths = indexCall.base.fieldLengths

\* C9: from an index of three documents with a string each, removing two of
\* them and inserting the same two again, with docsCount the number of stored
\* documents at each call, gives avgFieldLength and tokenOccurrencies the
\* values they had before the removals.
ReinsertRestoresStatistics ==
  scenario.phase = "done" =>
    /\ index.avgFieldLength = scenario.snapshot.avgFieldLength
    /\ index.tokenOccurrencies = scenario.snapshot.tokenOccurrencies

\* C9 witness: the two documents are back, the average is not a whole number
\* and it was another one while they were removed.
ReinsertedTwoDocuments ==
  /\ scenario.phase = "done"
  /\ Len(scenario.removed) = 2
  /\ index.avgFieldLength["title"][2] > 1
  /\ indexCall.base.avgFieldLength # index.avgFieldLength

\* C10: index create throws INVALID_SCHEMA_TYPE for every schema that holds,
\* at any depth, a property of a type that is neither one of the six
\* searchable types nor a nested schema.
CreateRejectsInvalidTypeAtAnyDepth ==
  (created.called /\ HasInvalidType(createSchema)) =>
    created.error = "INVALID_SCHEMA_TYPE"

----------------------------------------------------------------------------
(* Properties of searchByWhereClause *)

FilterOn(i) == whereCall.filters[i]

HasNoIndex(i) == FilterOn(i).param \notin DOMAIN index.indexes

HasSeveralKeys(i) ==
  FilterOn(i).operation.kind = "operator" /\ Len(FilterOn(i).operation.keys) > 1

\* The candidate set of the i-th filtered property.
CandidatesOf(i) ==
  filterCandidates(index, FilterOn(i).param, FilterOn(i).operation, allowDuplicates,
                   FALSE).ids

\* C11: searchByWhereClause returns exactly the ids that are in the candidate
\* set of every filtered property.
WhereReturnsIdsOfEveryProperty ==
  (whereCall.called /\ whereCall.returned) =>
    whereCall.result =
      {id \in Ids : \A i \in DOMAIN whereCall.filters : id \in CandidatesOf(i)}

\* C11 witness: a call with two filtered properties returned an id, and left
\* out an id that is a candidate of one property only.
WhereLeavesOutIdOfOneProperty ==
  /\ whereCall.called /\ whereCall.returned
  /\ Len(whereCall.filters) = 2
  /\ whereCall.result # {}
  /\ \E id \in Ids : id \in CandidatesOf(1) /\ id \notin CandidatesOf(2)

WhereRejectsEverySeveralKeys ==
  whereCall.called =>
    /\ (\E i \in DOMAIN whereCall.filters : HasSeveralKeys(i)) =>
         whereCall.error = "INVALID_FILTER_OPERATION"
    /\ (\A i \in DOMAIN whereCall.filters : ~HasSeveralKeys(i)) =>
         whereCall.error # "INVALID_FILTER_OPERATION"

\* C13 amended: an operator object with more than one key makes
\* searchByWhereClause fail without a result, with INVALID_FILTER_OPERATION
\* unless an earlier filter has failed already; the error is raised at such
\* an object only, never at an operator object of one key.
WhereRejectsFirstSeveralKeys ==
  whereCall.called =>
    /\ \A i \in DOMAIN whereCall.filters :
         HasSeveralKeys(i) =>
           /\ ~whereCall.returned
           /\ whereCall.result = {}
           /\ whereCall.at \in 1..i
           /\ whereCall.at = i => whereCall.error = "INVALID_FILTER_OPERATION"
    /\ whereCall.error = "INVALID_FILTER_OPERATION" => HasSeveralKeys(whereCall.at)

\* C13 witness: the second filter is an operator object of two keys on an
\* indexed number property and fails, after the first one found candidates.
WhereRejectsSecondSeveralKeys ==
  /\ whereCall.called
  /\ Len(whereCall.filters) = 2
  /\ HasSeveralKeys(2) /\ ~HasNoIndex(2)
  /\ CandidatesOf(1) # {}
  /\ whereCall.at = 2
  /\ whereCall.error = "INVALID_FILTER_OPERATION"

\* C14: the candidate set of a string filter is the union, over its strings
\* and over every token of each string, of the ids an exact radix lookup of
\* the token finds.
WhereStringFilterFindsEveryToken ==
  (whereCall.called /\ whereCall.returned) =>
    \A i \in DOMAIN whereCall.filters :
      FilterOn(i).operation.kind = "string" =>
        LET strings == FilterOn(i).operation.strings
            node == index.indexes[FilterOn(i).param]
        IN whereCall.filtersMap[FilterOn(i).param] =
             UNION {radixFind(node, token) :
                      token \in UNION {Range(Tokenize(strings[s], allowDuplicates))
                                         : s \in DOMAIN strings}}

----------------------------------------------------------------------------
(* Properties of the sorter: disabled sorters and unknown fields *)

SorterState ==
  <<enabled, isSorted, language, sortableProperties, sortablePropertiesWithTypes, sorts>>

CreatedDisabled == sortArgs.config.enabled = "false"

\* C15: a sorter created with sort disabled stays disabled through every
\* call, save and load included, and sortBy on a disabled sorter fails with
\* SORT_DISABLED for every property and every docIds, which it leaves in the
\* order given.
SortByOnDisabledThrows ==
  /\ CreatedDisabled => ~enabled
  /\ ~enabled =>
       \A p \in SortByProperties, docIds \in DocIdLists, order \in Orders :
         /\ sortByError(enabled, sorts, p) = "SORT_DISABLED"
         /\ sortByDocIds(enabled, sorts, isSorted, language, p, docIds, order) = docIds
  /\ (lastCall.op = "sortBy" /\ ~enabled) => lastCall.err = "SORT_DISABLED"

\* C15 witness: sortBy threw SORT_DISABLED on a sorter created disabled, after
\* documents were inserted.
SortByOnDisabledThrew ==
  /\ CreatedDisabled
  /\ lastCall.op = "sortBy"
  /\ lastCall.err = "SORT_DISABLED"
  /\ nInserts > 0

\* The ways a property is not sortable: absent from the schema, of an array
\* type, or listed in unsortableProperties.
EntriesOf(p) == {e \in Range(sortArgs.schema) : e.prop = p}

AbsentFromSchema(p) == EntriesOf(p) = {}

ArrayTyped(p) ==
  \E e \in EntriesOf(p) : e.type.name \in {"boolean[]", "number[]", "string[]"}

Unsortable(p) == p \in Range(sortArgs.config.unsortableProperties)

NotSortable(p) == AbsentFromSchema(p) \/ ArrayTyped(p) \/ Unsortable(p)

SortByThrewUnknownField(p) ==
  /\ lastCall.op = "sortBy"
  /\ lastCall.prop = p
  /\ lastCall.err = "UNABLE_TO_SORT_ON_UNKNOWN_FIELD"

DisabledInsertAndRemoveChangeNothing ==
  [][(CreatedDisabled /\ lastCall'.op \in {"insert", "remove"}) =>
       /\ lastCall'.err = ""
       /\ UNCHANGED SorterState]_vars

\* C17 witness: a remove followed an insert on a sorter created disabled, and
\* the sorter is as create returned it.
DisabledSorterAfterRemove ==
  /\ CreatedDisabled
  /\ lastCall.op = "remove"
  /\ lastCall.id \in everInserted[lastCall.prop]
  /\ SorterState = <<FALSE, FALSE, Undefined, <<>>, EmptyMap, EmptyMap>>

----------------------------------------------------------------------------
(* Properties of sorter create *)

\* The leaves of a schema: the flattened path, the type, and the path with
\* the paths of the nested schemas it lies in.
RECURSIVE Leaves(_, _, _)
Leaves(sch, prefix, above) ==
  UNION {LET path == Path(prefix, sch[i].prop)
         IN IF sch[i].type.kind = "object"
              THEN Leaves(sch[i].type.schema, path, above \cup {path})
            ELSE {[path |-> path, type |-> sch[i].type, chain |-> above \cup {path}]}
         : i \in DOMAIN sch}

SchemaLeaves == Leaves(sortArgs.schema, "", {})

IsScalarLeaf(leaf) == leaf.type.kind = "string" /\ leaf.type.name \in ScalarTypes

IsInvalidLeaf(leaf) == ~IsValidType(leaf.type)

Listed(path) == path \in Range(sortArgs.config.unsortableProperties)

\* The path, or the path of a nested schema it lies in, is listed in
\* unsortableProperties.
Denied(leaf) == \E path \in leaf.chain : Listed(path)

SorterCreated == lastCall.op = "create"

\* The sorter holds exactly the given paths as sortable properties, each
\* with its type and an empty sort.
SorterHolds(leaves) ==
  /\ lastCall.err = ""
  /\ enabled
  /\ Range(sortableProperties) = {leaf.path : leaf \in leaves}
  /\ Len(sortableProperties) = Cardinality(leaves)
  /\ DOMAIN sortablePropertiesWithTypes = {leaf.path : leaf \in leaves}
  /\ DOMAIN sorts = {leaf.path : leaf \in leaves}
  /\ \A leaf \in leaves :
       /\ sortablePropertiesWithTypes[leaf.path] = leaf.type.name
       /\ sorts[leaf.path] = PropertySort(leaf.type.name)
       /\ sorts[leaf.path].orderedDocs = <<>>
       /\ sorts[leaf.path].docs = EmptyMap
       /\ sorts[leaf.path].orderedDocsToRemove = {}

SorterCreateThrew ==
  /\ lastCall.err = "INVALID_SORT_SCHEMA_TYPE"
  /\ sorts = EmptyMap
  /\ sortableProperties = <<>>

----------------------------------------------------------------------------
(* Properties of save and load *)

SaveReturned == lastCall.op = "save" /\ enabled

IdsOf(orderedDocs) == {entry[1] : entry \in Range(orderedDocs)}

\* C19: after save on an enabled sorter every property has no pending
\* removal, isSorted is true, orderedDocs holds no removed id, and the saved
\* docs of every property gives each id the index of its entry in the saved
\* orderedDocs.
SaveFlushesEveryProperty ==
  SaveReturned =>
    /\ isSorted
    /\ lastCall.raw.isSorted
    /\ \A p \in DOMAIN sorts :
         LET saved == lastCall.raw.sorts[p]
         IN /\ sorts[p].orderedDocsToRemove = {}
            /\ IdsOf(sorts[p].orderedDocs) \subseteq DOMAIN stored[p]
            /\ IdsOf(saved.orderedDocs) \subseteq DOMAIN stored[p]
            /\ DOMAIN saved.docs = {ToString(id) : id \in IdsOf(saved.orderedDocs)}
            /\ \A key \in DOMAIN saved.docs :
                 /\ saved.docs[key] + 1 \in DOMAIN saved.orderedDocs
                 /\ saved.orderedDocs[saved.docs[key] + 1][1] = DocIdOf(key)

\* C20: load(save(sorter)) has the same enabled flag, sortable properties and
\* language as the sorter that was saved, and sortBy on it throws the same
\* error or returns the same list as sortBy on the sorter that was saved, for
\* every property, order and docIds.
LoadOfSaveSortsAlike ==
  [][lastCall'.op = "save" =>
       LET loaded == load(lastCall'.raw)
       IN /\ loaded.enabled = enabled
          /\ loaded.sortableProperties = sortableProperties
          /\ loaded.language = language
          /\ \A p \in SortByProperties :
               /\ sortByError(loaded.enabled, loaded.sorts, p)
                    = sortByError(enabled, sorts, p)
               /\ sortByError(enabled, sorts, p) = "none" =>
                    LET docsOfLoaded ==
                          sortBySorts(loaded.sorts, loaded.isSorted, loaded.enabled,
                                      loaded.language, p)[p].docs
                        docsOfSaved ==
                          sortBySorts(sorts, isSorted, enabled, language, p)[p].docs
                    IN \A docIds \in DocIdLists, order \in Orders :
                         sortByResult(docsOfLoaded, docIds, order)
                           = sortByResult(docsOfSaved, docIds, order)
     ]_vars

\* C20 witness: a sorter was loaded from the save of an enabled sorter whose
\* two documents were sorted into another order than they were inserted in,
\* and sortBy on it reorders docIds by their values.
LoadedSorterReorders ==
  /\ lastCall.op = "load"
  /\ enabled
  /\ isSorted
  /\ sorts["price"].orderedDocs = <<<<2, 10>>, <<1, 20>>>>
  /\ sortByDocIds(enabled, sorts, isSorted, language, "price", <<1, 3, 2>>, "ASC")
       = <<2, 1, 3>>

----------------------------------------------------------------------------
(* Properties of the sorter: order of values, removal and re-insertion *)

\* C22: after sortBy on a boolean property every entry of value true comes
\* before every entry of value false in orderedDocs, and sortBy ASC returns
\* the documents of value true before those of value false.
BooleanSortPutsTrueFirst ==
  (SortByReturned /\ schema[lastCall.prop] = "boolean" /\ ~reinserted) =>
    LET s == sorts[lastCall.prop]
    IN /\ \A i, j \in DOMAIN s.orderedDocs :
            (s.orderedDocs[i][2] = FALSE /\ s.orderedDocs[j][2] = TRUE) => j < i
       /\ \A docIds \in DocIdLists :
            LET r == sortByResult(s.docs, docIds, "ASC")
                stored1 == stored[lastCall.prop]
            IN \A i, j \in DOMAIN r :
                 (/\ r[i] \in DOMAIN stored1 /\ r[j] \in DOMAIN stored1
                  /\ stored1[r[i]] = FALSE /\ stored1[r[j]] = TRUE) => j < i

\* The entries of an id in orderedDocs, by their 1-based places.
PlacesOf(orderedDocs, id) == {i \in DOMAIN orderedDocs : orderedDocs[i][1] = id}

\* C25: after insert, remove and insert of the same id on a property, a
\* sortBy on the property or a save leaves exactly one entry of the id in
\* orderedDocs, with the value of the last insert, at the position docs gives.
ReinsertLeavesOneEntry ==
  (/\ (SortByReturned /\ lastCall.prop = "price") \/ SaveReturned
   /\ reinserted
   /\ 1 \in DOMAIN stored["price"]) =>
    LET s == sorts["price"]
    IN /\ Cardinality(PlacesOf(s.orderedDocs, 1)) = 1
       /\ \A i \in PlacesOf(s.orderedDocs, 1) :
            /\ s.orderedDocs[i][2] = stored["price"][1]
            /\ 1 \in DOMAIN s.docs
            /\ s.docs[1] = i - 1

\* C26: an id that has no entry in docs of a property gets one only by an
\* insert of the id on the property: once remove has deleted it, no sortBy on
\* another property, save or load puts it back.
OnlyInsertAddsToDocs ==
  [][\A p \in DOMAIN sorts \cap DOMAIN sorts', id \in Ids :
       (id \notin DOMAIN sorts[p].docs /\ id \in DOMAIN sorts'[p].docs) =>
         (lastCall'.op = "insert" /\ lastCall'.prop = p /\ lastCall'.id = id)]_vars

\* The 1-based places of x in the array s.
PlacesIn(s, x) == {i \in DOMAIN s : s[i] = x}

OrderedDocsOf(srts) == [p \in DOMAIN srts |-> srts[p].orderedDocs]

\* C27: remove never changes orderedDocs of any property, isSorted or
\* language; it changes docs and the pending removals of its property only,
\* and nothing at all when the id has no entry in docs of the property.
RemoveIsDeferred ==
  [][lastCall'.op = "remove" =>
       /\ UNCHANGED <<enabled, isSorted, language, sortableProperties,
                      sortablePropertiesWithTypes>>
       /\ DOMAIN sorts' = DOMAIN sorts
       /\ OrderedDocsOf(sorts') = OrderedDocsOf(sorts)
       /\ \A p \in DOMAIN sorts : p # lastCall'.prop => sorts'[p] = sorts[p]
       /\ (enabled /\ lastCall'.id \notin DOMAIN sorts[lastCall'.prop].docs) =>
            UNCHANGED sorts]_vars

\* C27 witness: the same id was removed a second time, while its entry is
\* in orderedDocs and its removal is pending.
RemovedTwice ==
  /\ enabled
  /\ lastCall.op = "remove"
  /\ lastCall.index = -1
  /\ lastCall.id \in sorts[lastCall.prop].orderedDocsToRemove
  /\ PlacesOf(sorts[lastCall.prop].orderedDocs, lastCall.id) # {}
  /\ ~isSorted

----------------------------------------------------------------------------
(* Properties of the index: buckets, posting lists and reads *)

\* C23: each boolean bucket of a boolean or boolean[] property holds an id
\* at most once, also when a boolean[] value holds a boolean several times.
BooleanBucketHoldsIdOnce ==
  \A p \in BooleanProperties : \A key \in {"true", "false"}, id \in Ids :
    Cardinality(PlacesIn(index.indexes[p][key], id)) <= 1

\* The buckets that a remove of the value addresses.
AddressedBuckets(type, value) ==
  IF type = "boolean" THEN {BooleanKey(value)}
  ELSE {BooleanKey(value[i]) : i \in DOMAIN value}

\* C28: index remove of a boolean value for an id that is in no bucket the
\* call addresses leaves both buckets of the property as they were.
RemoveOfAbsentIdKeepsBuckets ==
  indexCall.op = "removeValues" =>
    \A p \in BooleanProperties \cap DOMAIN indexCall.doc :
      LET before == indexCall.base.indexes[p]
          keys == AddressedBuckets(index.searchablePropertiesWithTypes[p],
                                   indexCall.doc[p])
      IN (\A key \in keys : indexCall.id \notin Range(before[key])) =>
           index.indexes[p] = before

\* C29: for every string or string[] property p, term t and id d in the
\* posting list of t on p, frequencies[p][d][t] is defined and greater than 0
\* and fieldLengths[p][d] is defined.
PostingHasFrequency ==
  \A p \in StringProperties : \A t \in DOMAIN index.indexes[p] :
    \A d \in radixFind(index.indexes[p], t) :
      /\ d \in DocumentsWithTerm(p, t)
      /\ d \in DOMAIN index.fieldLengths[p]
      /\ index.fieldLengths[p][d] # UndefinedSlot

\* The ids of the pairs that a search returned, one per pair.
IdsOfPairs(result) == [k \in DOMAIN result |-> result[k][1]]

SearchReturned == whereCall.called /\ whereCall.op = "search"

\* C30: a search and a searchByWhereClause leave indexes, frequencies,
\* tokenOccurrencies, avgFieldLength and fieldLengths of the index as they
\* were; a search returns at most one pair per internal id, and an empty list
\* for a property that has no string index.
SearchIsReadOnly ==
  [][whereCall' # whereCall =>
       /\ index' = index
       /\ whereCall'.op = "search" =>
            /\ \A id \in Ids :
                 Cardinality(PlacesIn(IdsOfPairs(whereCall'.result), id)) <= 1
            /\ whereCall'.prop \notin StringProperties => whereCall'.result = <<>>]_vars

\* A search by prefix that met the same document under two words and
\* returned it once.
SearchMetIdUnderTwoWords ==
  /\ SearchReturned
  /\ ~whereCall.exact
  /\ whereCall.prop = "title"
  /\ \E id \in Range(IdsOfPairs(whereCall.result)) :
       Cardinality({w \in DOMAIN index.indexes["title"] :
                      /\ StartsWith(w, whereCall.term)
                      /\ id \in DOMAIN index.indexes["title"][w]}) > 1

\* The index counts the document of the awaiting insert in fieldLengths
\* while one of its tokens has no frequency, no occurrence or no posting.
CountsDocumentWithoutItsTokens ==
  LET id == indexCall.id
      p == indexCall.prop
  IN /\ index.fieldLengths[p] # indexCall.base.fieldLengths[p]
     /\ \E token \in Range(indexCall.tokens) :
          \/ id \notin DocumentsWithTerm(p, token)
          \/ token \notin DOMAIN index.tokenOccurrencies[p]
          \/ id \notin radixFind(index.indexes[p], token)

\* C21: a search on the property at an await of an index insert of a string
\* returns what it returns on the index before the insert or on the index
\* after it, and at no await does the index count the document while one of
\* its tokens is missing from frequencies, tokenOccurrencies or the radix
\* tree.
InsertOfStringIsAtomic ==
  /\ (whereCall.called /\ whereCall.op = "search" /\ whereCall.during) =>
       whereCall.result \in {whereCall.before, whereCall.after}
  /\ InsertScalarAwaits => ~CountsDocumentWithoutItsTokens

----------------------------------------------------------------------------
(* Properties of create *)

CreateCalled == created.called

GivenTokenizer == Truthy(ComponentAt(created.components, "tokenizer"))

GivenLanguage == created.language # Undefined

\* C24, as stated: create with a components.tokenizer and a language fails
\* with NO_LANGUAGE_WITH_CUSTOM_TOKENIZER and returns no database; create
\* with only one of the two never raises that error.
CreateRefusesLanguageWithTokenizer ==
  CreateCalled =>
    IF GivenTokenizer /\ GivenLanguage
      THEN ~created.returned /\ created.error = "NO_LANGUAGE_WITH_CUSTOM_TOKENIZER"
      ELSE created.error # "NO_LANGUAGE_WITH_CUSTOM_TOKENIZER"

\* createTokenizer rejects the tokenizer configuration that create was given.
TokenizerConfigRejected ==
  LET tokenizer == ComponentAt(created.components, "tokenizer")
  IN tokenizer.kind = "config" /\ createTokenizer(tokenizer).error # ""

\* C24: create with a components.tokenizer and a language returns no
\* database and fails with NO_LANGUAGE_WITH_CUSTOM_TOKENIZER, or with the
\* error of createTokenizer when the tokenizer is a configuration that
\* createTokenizer rejects; create with only one of the two never raises
\* NO_LANGUAGE_WITH_CUSTOM_TOKENIZER.
CreateFailsOnLanguageWithTokenizer ==
  CreateCalled =>
    IF GivenTokenizer /\ GivenLanguage
      THEN /\ ~created.returned
           /\ IF TokenizerConfigRejected
                THEN created.error =
                       createTokenizer(ComponentAt(created.components, "tokenizer")).error
                ELSE created.error = "NO_LANGUAGE_WITH_CUSTOM_TOKENIZER"
      ELSE created.error # "NO_LANGUAGE_WITH_CUSTOM_TOKENIZER"

\* create was given a language and a tokenizer configuration that
\* createTokenizer accepts, with components and a schema that are valid.
CreateThrewOnLanguageWithTokenizerConfig ==
  /\ CreateCalled
  /\ GivenLanguage
  /\ ComponentAt(created.components, "tokenizer").kind = "config"
  /\ ~TokenizerConfigRejected
  /\ validateComponents(created.components).error = ""
  /\ indexCreate(createSchema, EmptyIndex, "").error = ""
  /\ created.error = "NO_LANGUAGE_WITH_CUSTOM_TOKENIZER"

GivenComponent(key) == ComponentAt(created.components, key)

\* The hooks and the function components of the database create returned.
HooksAreArraysOfFunctions ==
  \A key \in Range(SINGLE_OR_ARRAY_COMPONENTS) :
    LET hook == created.orama.components[key]
    IN /\ hook.kind = "array"
       /\ \A fn \in Range(hook.items) : fn = "function"
       /\ GivenComponent(key) = NoComponent => hook.items = <<>>
       /\ IsFunction(GivenComponent(key)) => hook.items = <<"function">>

FunctionComponentsAreFunctions ==
  \A key \in Range(FUNCTION_COMPONENTS) :
    LET component == created.orama.components[key]
    IN /\ IsFunction(component)
       /\ GivenComponent(key) = NoComponent => component = DefaultComponent

\* What create was given as components.
GivenUnsupportedKey ==
  \E key \in DOMAIN created.components :
    key \notin Range(OBJECT_COMPONENTS) \cup Range(FUNCTION_COMPONENTS)
                 \cup Range(SINGLE_OR_ARRAY_COMPONENTS)

GivenNonFunction ==
  \E key \in Range(FUNCTION_COMPONENTS) :
    GivenComponent(key) # NoComponent /\ ~IsFunction(GivenComponent(key))

GivenTruthyNonFunction ==
  \E key \in Range(FUNCTION_COMPONENTS) :
    Truthy(GivenComponent(key)) /\ ~IsFunction(GivenComponent(key))

GivenNonFunctionHookElement ==
  \E key \in Range(SINGLE_OR_ARRAY_COMPONENTS) :
    LET hook == GivenComponent(key)
    IN IF hook.kind = "array" THEN \E fn \in Range(hook.items) : fn # "function"
       ELSE Truthy(hook) /\ ~IsFunction(hook)

\* C31, as stated: a database that create returns has every hook as an array
\* of functions (empty when not supplied, of one element for a single
\* function) and every function component as a function (the default when
\* not supplied); create fails with UNSUPPORTED_COMPONENT on a key outside
\* the recognised names, with COMPONENT_MUST_BE_FUNCTION on a function
\* component that is no function, and with
\* COMPONENT_MUST_BE_FUNCTION_OR_ARRAY_FUNCTIONS on a hook element that is
\* no function.
CreateValidatesEveryComponent ==
  CreateCalled =>
    /\ created.returned => HooksAreArraysOfFunctions /\ FunctionComponentsAreFunctions
    /\ GivenUnsupportedKey => created.error = "UNSUPPORTED_COMPONENT"
    /\ GivenNonFunction => created.error = "COMPONENT_MUST_BE_FUNCTION"
    /\ GivenNonFunctionHookElement =>
         created.error = "COMPONENT_MUST_BE_FUNCTION_OR_ARRAY_FUNCTIONS"

\* create failed on the tokenizer or the language, before it looked at the
\* other components.
CreateFailedBeforeComponents ==
  created.error \in {"LANGUAGE_NOT_SUPPORTED", "NO_LANGUAGE_WITH_CUSTOM_TOKENIZER"}

\* C31: a database that create returns has every hook as an array of
\* functions (empty when not supplied, of one element for a single function)
\* and every function component as a function (the default when not
\* supplied). Unless create fails on the tokenizer or the language first, it
\* fails with COMPONENT_MUST_BE_FUNCTION on a function component that is
\* truthy and no function, otherwise with
\* COMPONENT_MUST_BE_FUNCTION_OR_ARRAY_FUNCTIONS on a hook element that is no
\* function, otherwise with UNSUPPORTED_COMPONENT on a key outside the
\* recognised names.
CreateValidatesComponentsInOrder ==
  CreateCalled =>
    /\ created.returned => HooksAreArraysOfFunctions /\ FunctionComponentsAreFunctions
    /\ ~CreateFailedBeforeComponents =>
         IF GivenTruthyNonFunction THEN created.error = "COMPONENT_MUST_BE_FUNCTION"
         ELSE IF GivenNonFunctionHookElement
           THEN created.error = "COMPONENT_MUST_BE_FUNCTION_OR_ARRAY_FUNCTIONS"
         ELSE GivenUnsupportedKey => created.error = "UNSUPPORTED_COMPONENT"

\* create returned a database for a single function given as a hook and a
\* function component that was not given.
CreateReturnedHookOfSingleFunction ==
  /\ CreateCalled
  /\ created.returned
  /\ GivenComponent("beforeInsert") = FunctionComponent
  /\ created.orama.components["beforeInsert"] = ArrayComponent(<<"function">>)
  /\ GivenComponent("validateSchema") = NoComponent
  /\ created.orama.components["validateSchema"] = DefaultComponent

====
